---- MODULE Spec2Model ----
(***************************************************************************)
(* Model of the watcher change-detection pipeline: the version store       *)
(* (core/storage.py), the feed builder (core/rss_manager.py), the content  *)
(* extractor's result shapes (core/scraper.py) and the orchestrator        *)
(* (lib.py), for one site, one run at a time.                              *)
(*                                                                         *)
(* Time is counted in ticks; TicksPerSecond ticks make one second.  A      *)
(* capture timestamp (isoformat, sub-second precision) is a tick count, a  *)
(* snapshot key (strftime "%Y%m%d-%H%M%S") is a whole number of seconds,   *)
(* and so is a pubDate written to the feed document.                       *)
(***************************************************************************)
EXTENDS Integers, Sequences, FiniteSets, TLC

\* ---------------------------------------------------------------- bounds
TicksPerSecond == 2
MaxHour == 1
MaxTick == 2
MaxRuns == 2
MaxPublish == 22
MaxSpecial == 2
MaxLoadItems == 3

\* ------------------------------------------------------ program constants
SecondsPerHour == 3600
KeptExisting == 19
FeedCap == 20
TicksPerHour == SecondsPerHour * TicksPerSecond

\* ------------------------------------------------------------ value sets
\* Python None, per type of the slot it can stand in.
NoneInt == -1
NoneHash == <<>>
NoneStr == "<None>"

\* A fingerprint is <<first 8 hex digits, remaining digits>>.
Hashes == {<<"aaaaaaaa", "1">>, <<"bbbbbbbb", "1">>}
Titles == {"T"}
\* Page descriptions: none on the page, an ordinary one, one that holds
\* the CDATA terminator "]]>".
PlainDesc == "d"
CdataEndDesc == "x]]>y"
PageDescs == {"", PlainDesc, CdataEndDesc}
\* The versions of the page the pipeline runs can fetch: fingerprint,
\* title and description of each.
PageA == [hash |-> <<"aaaaaaaa", "1">>, title |-> "T", description |-> ""]
PageB == [hash |-> <<"bbbbbbbb", "1">>, title |-> "T", description |-> PlainDesc]
Pages == {PageA, PageB}
MinHoursSet == {NoneInt, 0, 1}
FeedName == "demo"

\* A text of a description slot: the page description followed, when a
\* diff is present, by two newlines and the diff (identified by the
\* fingerprints of the two bodies it compares).
Text(page, diff) == [page |-> page, diff |-> diff]
NoDiff == <<>>
NoneText == Text(NoneStr, NoDiff)
EmptyText == Text("", NoDiff)
StrNoneText == Text("None", NoDiff)

Max(S) == CHOOSE x \in S : \A y \in S : y <= x
Min2(a, b) == IF a <= b THEN a ELSE b
\* seq[:n]
Take(seq, n) == SubSeq(seq, 1, Min2(n, Len(seq)))

VARIABLES
  clock,         \* [hour, tick]: the wall clock
  metadata,      \* content/<feed>/.metadata.json
  snapshots,     \* content/<feed>/*.html: snapshot key -> artifact
  feed,          \* feeds/<feed>.xml
  pc,            \* position of the orchestrator run
  req,           \* the ScraperRequest of the run, with its start time
  content_data,  \* what fetch_content returned in this run
  save_result,   \* what save_content returned in this run
  exc,           \* the exception travelling to the handler, "" if none
  result,        \* the ScraperResult returned by the last finished run
  pre,           \* persisted state at the start of the run (history)
  log,           \* steps and writes of the run so far (history)
  lastCheck,     \* last run that fetched and ended in success (history)
  runs,          \* runs started
  nPublish,      \* direct publish calls made (feed specification)
  specials,      \* direct publish calls with a non-default item
  fs,            \* the files of several sites: path -> content
  procs,         \* the runs of several processes: id -> locals and position
  overlap,       \* some run started while another was under way (history)
  batch,         \* the batch runner: configuration, loop position, counters
  diff_in,     \* the text handed to a DiffUtils function
  diff_out       \* the function applied last and what it returned

\* The state of one pipeline run on one site, and the state of the other
\* components.
pipeline == <<clock, metadata, snapshots, feed, pc, req, content_data,
              save_result, exc, result, pre, log, lastCheck, runs,
              nPublish, specials>>
others == <<fs, procs, overlap, batch, diff_in, diff_out>>

vars == <<clock, metadata, snapshots, feed, pc, req, content_data,
          save_result, exc, result, pre, log, lastCheck, runs,
          nPublish, specials, fs, procs, overlap, batch, diff_in,
          diff_out>>

Now == clock.hour * TicksPerHour + clock.tick

\* ------------------------------------------------------------ conversions
\* datetime.strftime("%Y%m%d-%H%M%S"): the key keeps whole seconds only.
FormatKey(t) == t \div TicksPerSecond
\* strftime("%a, %d %b %Y %H:%M:%S +0000") of a pubdate.
FormatPubDate(t) == t \div TicksPerSecond
\* dateutil parser.parse of a pubDate text.
ParsePubDate(s) == s * TicksPerSecond

\* ------------------------------------------------------------ value shapes
\* .metadata.json: a missing file and "{}" both load as no keys at all.
EmptyMetadata ==
  [corrupt |-> FALSE, last_hash |-> NoneHash, last_update |-> NoneInt,
   last_filename |-> NoneInt]
\* A truncated or half-written file: json.load raises on it.
CorruptMetadata ==
  [corrupt |-> TRUE, last_hash |-> NoneHash, last_update |-> NoneInt,
   last_filename |-> NoneInt]

\* The success record of fetch_content.
ContentData(h, title, desc, t) ==
  [error |-> FALSE, error_message |-> NoneStr, hash |-> h, title |-> title,
   description |-> desc, timestamp |-> t]
\* str(e) of the exception fetch_content caught.
FetchFailure == "Connection error"
\* The failure record of fetch_content: it carries the message of the
\* exception and has no hash, title or timestamp.
ErrorData ==
  [error |-> TRUE, error_message |-> FetchFailure, hash |-> NoneHash,
   title |-> NoneStr, description |-> NoneStr, timestamp |-> NoneInt]
NoData ==
  [error |-> FALSE, error_message |-> NoneStr, hash |-> NoneHash,
   title |-> NoneStr, description |-> NoneStr, timestamp |-> NoneInt]

\* The static HTML document save_content renders for a content record.
Artifact(cd) ==
  [partial |-> FALSE, hash |-> cd.hash, title |-> cd.title,
   timestamp |-> cd.timestamp]
\* What an interrupted write leaves behind: a truncated document.
PartialArtifact ==
  [partial |-> TRUE, hash |-> NoneHash, title |-> NoneStr,
   timestamp |-> NoneInt]

\* Diff values: None, the empty string, or the hunks between two bodies.
NoneDiff == <<"<None>">>
EmptyDiff == <<>>
DiffText(old, new) == <<old, new>>
\* "if diff_content:" in lib.py
Truthy(diff) == diff # NoneDiff /\ diff # EmptyDiff

\* The return value of save_content: None, or (html_filename, diff_content).
NoSave == [saved |-> FALSE, filename |-> NoneInt, diff |-> NoneDiff]
Saved(key, diff) == [saved |-> TRUE, filename |-> key, diff |-> diff]

\* ------------------------------------------------------------ ScraperResult
ScraperResult(success, changed, skipped, filename, feed_path, msg, h) ==
  [success |-> success, changed |-> changed, skipped |-> skipped,
   filename |-> filename, feed_path |-> feed_path, error_message |-> msg,
   content_hash |-> h]
NoResult ==
  ScraperResult(FALSE, FALSE, FALSE, NoneInt, NoneStr, NoneStr, NoneHash)
\* Mutant: the skipped flag is left at its default.
SkippedResult_unflagged ==
  ScraperResult(TRUE, FALSE, FALSE, NoneInt, NoneStr, "Skipped - checked too recently",
                NoneHash)
SkippedResult ==
  ScraperResult(TRUE, FALSE, TRUE, NoneInt, NoneStr, "Skipped - checked too recently",
                NoneHash)
\* Mutant: the unchanged result carries no fingerprint.
UnchangedResult_nohash(h) ==
  ScraperResult(TRUE, FALSE, FALSE, NoneInt, NoneStr, NoneStr, NoneHash)
UnchangedResult(h) ==
  ScraperResult(TRUE, FALSE, FALSE, NoneInt, NoneStr, NoneStr, h)
\* Mutant: the changed result does not name the snapshot.
ChangedResult_nofilename(key, h) ==
  ScraperResult(TRUE, TRUE, FALSE, NoneInt, "feeds/demo.xml", NoneStr, h)
ChangedResult(key, h) ==
  ScraperResult(TRUE, TRUE, FALSE, key, "feeds/demo.xml", NoneStr, h)
\* Mutant: the failed result carries no message.
ErrorResult_nomessage(e) ==
  ScraperResult(FALSE, FALSE, FALSE, NoneInt, NoneStr, NoneStr, NoneHash)
ErrorResult(e) ==
  ScraperResult(FALSE, FALSE, FALSE, NoneInt, NoneStr, e, NoneHash)

\* ------------------------------------------------------------ version store
\* Mutant: a record json.load rejects reads as an empty one.
LoadMetadataRaises_never(md) == FALSE
\* storage.py 16-21: load_metadata lets the JSONDecodeError of json.load
\* out.
LoadMetadataRaises(md) == md.corrupt

\* Mutant: every fetched fingerprint counts as a change.
has_content_changed_always(md, content_hash) == TRUE
has_content_changed(md, content_hash) == md.last_hash # content_hash

\* A stored last_update that dateutil's parser.parse rejects, or that it
\* parses to a naive datetime, which cannot be subtracted from the aware now.
BadStamp == -3

\* Mutant: a timestamp that cannot be used keeps the gate shut.
should_check_fail_closed(md, min_hours, now) ==
  IF min_hours = NoneInt THEN TRUE
  ELSE IF md.last_update = NoneInt THEN TRUE
  ELSE IF md.last_update = BadStamp THEN FALSE
  ELSE (now - md.last_update) >= min_hours * TicksPerHour

\* Mutant: the gate opens only after more than min_hours.
should_check_strict(md, min_hours, now) ==
  IF min_hours = NoneInt THEN TRUE
  ELSE IF md.last_update = NoneInt THEN TRUE
  ELSE IF md.last_update = BadStamp THEN TRUE
  ELSE (now - md.last_update) > min_hours * TicksPerHour

\* storage.py 33-50: whatever parsing or subtracting an unusable timestamp
\* raises is caught (except Exception) and answered with True.
should_check(md, min_hours, now) ==
  IF min_hours = NoneInt THEN TRUE
  ELSE IF md.last_update = NoneInt THEN TRUE
  ELSE IF md.last_update = BadStamp THEN TRUE
  ELSE (now - md.last_update) >= min_hours * TicksPerHour

WriteFile(snaps, key, art) ==
  [k \in DOMAIN snaps \cup {key} |-> IF k = key THEN art ELSE snaps[k]]

\* get_html_diff over the two stored documents: no diff when either body
\* cannot be extracted or git is unavailable, else the unified diff.
get_html_diff(new, old, gitOk) ==
  IF new.partial \/ old.partial THEN NoneDiff
  ELSE IF ~gitOk THEN NoneDiff
  ELSE IF new.hash = old.hash THEN EmptyDiff
  ELSE DiffText(old.hash, new.hash)

\* The I/O faults that can strike during save_content.  "diff": git is
\* missing or fails (generate_unified_diff returns None); "diff_tempfile":
\* creating or writing a temporary file in get_html_diff raises.
SaveFaults ==
  {"none", "artifact_open", "artifact_write", "diff", "diff_tempfile",
   "metadata_open", "metadata_write"}

SaveOutcome(md, snaps, ret, e, writes) ==
  [metadata |-> md, snapshots |-> snaps, ret |-> ret, exc |-> e,
   writes |-> writes]

\* Mutant: the record keeps the previous version's fields.
UpdatedMetadata_stale(md, cd, key) == md
\* storage.py 191-194: the three fields set after a change.
UpdatedMetadata(md, cd, key) ==
  [corrupt |-> FALSE, last_hash |-> cd.hash, last_update |-> cd.timestamp,
   last_filename |-> key]

\* Mutant: the metadata record is written before the snapshot artifact.
save_content_metadata_first(md, snaps, cd, now, fault) ==
  IF cd.error THEN SaveOutcome(md, snaps, NoSave, "KeyError: 'hash'", <<>>)
  ELSE IF LoadMetadataRaises(md)
  THEN SaveOutcome(md, snaps, NoSave, "JSONDecodeError", <<>>)
  ELSE IF ~has_content_changed(md, cd.hash) THEN SaveOutcome(md, snaps, NoSave, "", <<>>)
  ELSE
    LET key == FormatKey(now)
        written == WriteFile(snaps, key, Artifact(cd))
        hasOld == md.last_filename # NoneInt /\ md.last_filename \in DOMAIN written
        bodies ==
          hasOld /\ ~written[key].partial /\ ~written[md.last_filename].partial
        diff ==
          IF hasOld
          THEN get_html_diff(written[key], written[md.last_filename],
                             fault # "diff")
          ELSE NoneDiff
        diffLog ==
          IF hasOld /\ (~bodies \/ fault = "diff") THEN <<"diff_failed">> ELSE <<>>
        newmd == UpdatedMetadata(md, cd, key)
    IN CASE fault = "artifact_open" ->
              SaveOutcome(newmd, snaps, NoSave, "OSError: artifact",
                          <<"w_metadata">>)
         [] fault = "artifact_write" ->
              SaveOutcome(newmd, WriteFile(snaps, key, PartialArtifact), NoSave,
                          "OSError: artifact", <<"w_metadata", "w_artifact">>)
         [] fault = "diff_tempfile" /\ bodies ->
              SaveOutcome(newmd, written, NoSave, "OSError: tempfile",
                          <<"w_metadata", "w_artifact", "diff_failed">>)
         [] fault = "metadata_open" ->
              SaveOutcome(md, written, NoSave, "OSError: metadata",
                          <<"w_artifact">>)
         [] fault = "metadata_write" ->
              SaveOutcome(CorruptMetadata, written, NoSave,
                          "OSError: metadata", <<"w_artifact", "w_metadata">>)
         [] OTHER ->
              SaveOutcome(newmd, written, Saved(key, diff), "",
                          <<"w_metadata", "w_artifact">> \o diffLog)

\* save_content as a function of the persisted state, the fetched record,
\* the clock and the I/O fault that strikes during the call.
save_content(md, snaps, cd, now, fault) ==
  IF cd.error THEN SaveOutcome(md, snaps, NoSave, "KeyError: 'hash'", <<>>)
  ELSE IF LoadMetadataRaises(md)
  THEN SaveOutcome(md, snaps, NoSave, "JSONDecodeError", <<>>)
  ELSE IF ~has_content_changed(md, cd.hash) THEN SaveOutcome(md, snaps, NoSave, "", <<>>)
  ELSE
    LET key == FormatKey(now)
        written == WriteFile(snaps, key, Artifact(cd))
        hasOld == md.last_filename # NoneInt /\ md.last_filename \in DOMAIN written
        bodies ==
          hasOld /\ ~written[key].partial /\ ~written[md.last_filename].partial
        diff ==
          IF hasOld
          THEN get_html_diff(written[key], written[md.last_filename],
                             fault # "diff")
          ELSE NoneDiff
        diffLog ==
          IF hasOld /\ (~bodies \/ fault = "diff") THEN <<"diff_failed">> ELSE <<>>
        newmd == UpdatedMetadata(md, cd, key)
    IN CASE fault = "artifact_open" ->
              SaveOutcome(md, snaps, NoSave, "OSError: artifact", <<>>)
         [] fault = "artifact_write" ->
              SaveOutcome(md, WriteFile(snaps, key, PartialArtifact), NoSave,
                          "OSError: artifact", <<"w_artifact">>)
         [] fault = "diff_tempfile" /\ bodies ->
              SaveOutcome(md, written, NoSave, "OSError: tempfile",
                          <<"w_artifact", "diff_failed">>)
         [] fault = "metadata_open" ->
              SaveOutcome(md, written, NoSave, "OSError: metadata",
                          <<"w_artifact">>)
         [] fault = "metadata_write" ->
              SaveOutcome(CorruptMetadata, written, NoSave,
                          "OSError: metadata", <<"w_artifact", "w_metadata">>)
         [] OTHER ->
              SaveOutcome(newmd, written, Saved(key, diff), "",
                          <<"w_artifact">> \o diffLog \o <<"w_metadata">>)

\* ------------------------------------------------------------- feed builder
\* feeds/<feed>.xml.  link is the snapshot key the channel link names
\* (NoneInt: the feed document's own location); items are the <item>
\* elements as written; wellformed says whether an XML parser accepts the
\* document.
NoFeed == [exists |-> FALSE, wellformed |-> FALSE, link |-> NoneInt, items |-> <<>>]
\* What an interrupted write leaves behind: a truncated document.
TruncatedFeed ==
  [exists |-> TRUE, wellformed |-> FALSE, link |-> NoneInt, items |-> <<>>]

\* The entry handed to create_or_update_feed (rss_item in lib.py).
RssItem(title, description, timestamp, h, filename) ==
  [title |-> title, description |-> description, timestamp |-> timestamp,
   hash |-> h, filename |-> filename]

\* The CDATA section written for a description ends at the first "]]>".
ContainsCdataEnd(text) == text.page = CdataEndDesc

\* One <item> read back: an element without text reads as None, the
\* pubDate text is parsed to a datetime.
ItemDict(e) ==
  [title |-> IF e.title = "" THEN NoneStr ELSE e.title,
   link |-> e.link,
   description |-> IF e.description = EmptyText THEN NoneText ELSE e.description,
   pubdate |-> IF e.pubDate = NoneInt THEN NoneInt ELSE ParsePubDate(e.pubDate),
   unique_id |-> e.guid]

\* One <item> written: None as element text writes no text, the description
\* is formatted into the CDATA marker string (None formats as "None"), a
\* datetime pubdate is formatted to whole seconds.
ItemElem(d) ==
  [title |-> IF d.title = NoneStr THEN "" ELSE d.title,
   link |-> d.link,
   description |-> IF d.description = NoneText THEN StrNoneText ELSE d.description,
   pubDate |-> IF d.pubdate = NoneInt THEN NoneInt ELSE FormatPubDate(d.pubdate),
   guid |-> d.unique_id]

\* A pubDate text dateutil cannot parse.
BadPubDate == -2

\* _load_existing_items: a missing document and one ET.parse rejects give
\* no items; an item whose pubDate cannot be parsed ends the loop, and the
\* items appended before it are returned.
load_existing_items(doc) ==
  IF ~doc.exists THEN <<>>
  ELSE IF ~doc.wellformed THEN <<>>
  ELSE LET bad == {i \in 1..Len(doc.items) : doc.items[i].pubDate = BadPubDate}
           n == IF bad = {} THEN Len(doc.items)
                ELSE (CHOOSE i \in bad : \A j \in bad : i <= j) - 1
       IN [i \in 1..n |-> ItemDict(doc.items[i])]

\* Mutant: the first file of the sorted listing is taken.
get_latest_content_file_first(snaps) ==
  IF DOMAIN snaps = {} THEN NoneInt
  ELSE CHOOSE x \in DOMAIN snaps : \A y \in DOMAIN snaps : x <= y
get_latest_content_file(snaps) ==
  IF DOMAIN snaps = {} THEN NoneInt ELSE Max(DOMAIN snaps)

write_rss_feed(link, items) ==
  LET elems == [i \in 1..Len(items) |-> ItemElem(items[i])]
  IN [exists |-> TRUE,
      wellformed |-> \A i \in 1..Len(elems) : ~ContainsCdataEnd(elems[i].description),
      link |-> link,
      items |-> elems]

\* Mutant: the identifier also names the snapshot file.
NewItemDict_guid_filename(new_item) ==
  [title |-> new_item.title,
   link |-> [filename |-> new_item.filename, date |-> new_item.timestamp],
   description |-> new_item.description,
   pubdate |-> new_item.timestamp,
   unique_id |-> <<FeedName, new_item.hash[1], new_item.filename>>]
\* Mutant: the link names the file the capture time would give.
NewItemDict_link_from_timestamp(new_item) ==
  [title |-> new_item.title,
   link |-> [filename |-> FormatKey(new_item.timestamp),
             date |-> new_item.timestamp],
   description |-> new_item.description,
   pubdate |-> new_item.timestamp,
   unique_id |-> <<FeedName, new_item.hash[1]>>]
\* rss_manager.py 61-73: the entry built for the new item.
NewItemDict(new_item) ==
  [title |-> new_item.title,
   link |-> [filename |-> new_item.filename, date |-> new_item.timestamp],
   description |-> new_item.description,
   pubdate |-> new_item.timestamp,
   unique_id |-> <<FeedName, new_item.hash[1]>>]

FeedFaults == {"none", "feed_open", "feed_write"}

\* create_or_update_feed as a function of the persisted document, the
\* snapshot directory, the new entry and the I/O fault during the call.
create_or_update_feed(doc, snaps, new_item, fault) ==
  LET latest_file == get_latest_content_file(snaps)
      existing_items == load_existing_items(doc)
      items == <<NewItemDict(new_item)>> \o Take(existing_items, KeptExisting)
  IN CASE fault = "feed_open" -> doc
       [] fault = "feed_write" -> TruncatedFeed
       [] OTHER -> write_rss_feed(latest_file, items)

\* ------------------------------------------------------------- orchestrator
\* description handed to the feed: the page description, followed by the
\* diff when save_content returned a non-empty one.
Description(cd, diff) ==
  IF Truthy(diff) THEN Text(cd.description, diff) ELSE Text(cd.description, NoDiff)

Persisted == [metadata |-> metadata, snapshots |-> snapshots, feed |-> feed]
NoPersisted == [metadata |-> EmptyMetadata, snapshots |-> <<>>, feed |-> NoFeed]
NoRequest == [min_hours |-> NoneInt, started |-> NoneInt]

\* No process, batch or diff function is at work.
OthersAtRest ==
  /\ fs = <<>>
  /\ procs = <<>>
  /\ overlap = FALSE
  /\ batch = <<>>
  /\ diff_in = <<>>
  /\ diff_out = <<>>

\* No pipeline run is at work on the modelled site, which is fresh.
PipelineAtRest ==
  /\ clock = [hour |-> 0, tick |-> 0]
  /\ metadata = EmptyMetadata
  /\ snapshots = <<>>
  /\ feed = NoFeed
  /\ pc = "idle"
  /\ req = NoRequest
  /\ content_data = NoData
  /\ save_result = NoSave
  /\ exc = ""
  /\ result = NoResult
  /\ pre = NoPersisted
  /\ log = <<>>
  /\ lastCheck = [t |-> NoneInt, min_hours |-> NoneInt]
  /\ runs = 0
  /\ nPublish = 0
  /\ specials = 0

Init ==
  /\ clock = [hour |-> 0, tick |-> 0]
  /\ metadata = EmptyMetadata
  /\ snapshots = <<>>
  /\ feed = NoFeed
  /\ pc = "idle"
  /\ req = NoRequest
  /\ content_data = NoData
  /\ save_result = NoSave
  /\ exc = ""
  /\ result = NoResult
  /\ pre = NoPersisted
  /\ log = <<>>
  /\ lastCheck = [t |-> NoneInt, min_hours |-> NoneInt]
  /\ runs = 0
  /\ nPublish = 0
  /\ specials = 0
  /\ OthersAtRest

\* The wall clock advances by a tick or by an hour, between two runs or
\* while the fetch, the one blocking step of a run, is under way.
Tick ==
  /\ pc \in {"idle", "persist"}
  /\ \/ /\ clock.tick < MaxTick
        /\ clock' = [clock EXCEPT !.tick = @ + 1]
     \/ /\ clock.hour < MaxHour
        /\ clock' = [clock EXCEPT !.hour = @ + 1]
  /\ UNCHANGED others
  /\ UNCHANGED <<metadata, snapshots, feed, pc, req, content_data, save_result,
                 exc, result, pre, log, lastCheck, runs, nPublish,
                 specials>>

\* lib.py 19-22: the components are constructed; creating the content or
\* feeds directory can fail.
Construct ==
  /\ pc = "idle"
  /\ runs < MaxRuns
  /\ \E mh \in MinHoursSet, fault \in {"none", "mkdir"} :
       /\ req' = [min_hours |-> mh, started |-> Now]
       /\ IF fault = "none"
          THEN pc' = "gate" /\ exc' = ""
          ELSE pc' = "except" /\ exc' = "OSError: mkdir"
  /\ runs' = runs + 1
  /\ pre' = Persisted
  /\ UNCHANGED others
  /\ UNCHANGED <<clock, metadata, snapshots, feed, content_data, save_result,
                 result, log, lastCheck, nPublish, specials>>

\* lib.py 24-31: the cadence gate.  should_check reads the metadata record
\* only when min_hours is given, and the read raises on a corrupt record.
GateCadence ==
  /\ pc = "gate"
  /\ log' = Append(log, "gate")
  /\ IF req.min_hours # NoneInt /\ LoadMetadataRaises(metadata)
     THEN pc' = "except" /\ exc' = "JSONDecodeError" /\ UNCHANGED result
     ELSE IF ~should_check(metadata, req.min_hours, Now)
     THEN pc' = "done" /\ result' = SkippedResult /\ UNCHANGED exc
     ELSE pc' = "fetch" /\ UNCHANGED <<result, exc>>
  /\ UNCHANGED others
  /\ UNCHANGED <<clock, metadata, snapshots, feed, req, content_data,
                 save_result, pre, lastCheck, runs, nPublish, specials>>

\* lib.py 33-40 with scraper.py 16-103: fetch_content returns its success
\* record, stamped with the current time, or its failure record; both are
\* non-empty dicts, so "if not content_data" never fires.
FetchContent ==
  /\ pc = "fetch"
  /\ log' = Append(log, "fetch")
  /\ \/ \E p \in Pages :
          content_data' = ContentData(p.hash, p.title, p.description, Now)
     \/ content_data' = ErrorData
  /\ pc' = "persist"
  /\ UNCHANGED others
  /\ UNCHANGED <<clock, metadata, snapshots, feed, req, save_result, exc,
                 result, pre, lastCheck, runs, nPublish, specials>>

\* Whether the call reaches the I/O step the fault strikes.
SaveFaultApplies(md, cd, fault) ==
  \/ fault = "none"
  \/ /\ ~cd.error
     /\ ~md.corrupt
     /\ has_content_changed(md, cd.hash)
     /\ fault \in {"diff", "diff_tempfile"} => md.last_filename # NoneInt

\* lib.py 42-50: save_content, and the early return when it reports no
\* change.
Persist ==
  /\ pc = "persist"
  /\ \E fault \in SaveFaults :
       /\ SaveFaultApplies(metadata, content_data, fault)
       /\ LET o == save_content(metadata, snapshots, content_data, Now, fault)
          IN /\ metadata' = o.metadata
             /\ snapshots' = o.snapshots
             /\ save_result' = o.ret
             /\ log' = Append(log, "persist") \o o.writes
             /\ IF o.exc # ""
                THEN pc' = "except" /\ exc' = o.exc /\ UNCHANGED result
                ELSE IF ~o.ret.saved
                THEN /\ pc' = "done"
                     /\ result' = UnchangedResult(content_data.hash)
                     /\ UNCHANGED exc
                ELSE pc' = "publish" /\ UNCHANGED <<result, exc>>
  /\ UNCHANGED others
  /\ UNCHANGED <<clock, feed, req, content_data, pre, lastCheck, runs,
                 nPublish, specials>>

\* lib.py 52-78: the entry is built and published, and the run reports the
\* change.
Publish ==
  /\ pc = "publish"
  /\ \E fault \in FeedFaults :
       /\ LET rss_item ==
                RssItem(content_data.title,
                        Description(content_data, save_result.diff),
                        content_data.timestamp, content_data.hash,
                        save_result.filename)
          IN feed' = create_or_update_feed(feed, snapshots, rss_item, fault)
       /\ log' = log \o (IF fault = "feed_open" THEN <<"publish">>
                         ELSE <<"publish", "w_feed">>)
       /\ IF fault = "none"
          THEN /\ pc' = "done"
               /\ result' = ChangedResult(save_result.filename, content_data.hash)
               /\ UNCHANGED exc
          ELSE pc' = "except" /\ exc' = "OSError: feed" /\ UNCHANGED result
  /\ UNCHANGED others
  /\ UNCHANGED <<clock, metadata, snapshots, req, content_data, save_result,
                 pre, lastCheck, runs, nPublish, specials>>

\* Mutant: the handler names OSError only.
Caught_oserror_only(e) ==
  e \in {"OSError: mkdir", "OSError: artifact", "OSError: tempfile",
         "OSError: metadata", "OSError: feed"}
\* "except Exception": every exception the components raise is one.
Caught(e) == e # ""

\* lib.py 80-85: the error boundary.
ExceptHandler ==
  /\ pc = "except"
  /\ IF Caught(exc)
     THEN result' = ErrorResult(exc) /\ pc' = "done"
     ELSE UNCHANGED result /\ pc' = "propagated"
  /\ UNCHANGED others
  /\ UNCHANGED <<clock, metadata, snapshots, feed, req, content_data,
                 save_result, exc, pre, log, lastCheck, runs, nPublish,
                 specials>>

\* The result reaches the caller and the run's locals are gone.  A run
\* with a positive min_hours that fetched and ended in success is
\* remembered as the last successful check.
Return ==
  /\ pc = "done"
  /\ pc' = "idle"
  /\ lastCheck' =
       IF result.success /\ ~result.skipped /\ req.min_hours > 0
       THEN [t |-> content_data.timestamp, min_hours |-> req.min_hours]
       ELSE lastCheck
  /\ req' = NoRequest
  /\ content_data' = NoData
  /\ save_result' = NoSave
  /\ exc' = ""
  /\ result' = NoResult
  /\ pre' = NoPersisted
  /\ log' = <<>>
  /\ UNCHANGED others
  /\ UNCHANGED <<clock, metadata, snapshots, feed, runs, nPublish,
                 specials>>

Next ==
  \/ Tick
  \/ Construct
  \/ GateCadence
  \/ FetchContent
  \/ Persist
  \/ Publish
  \/ ExceptHandler
  \/ Return

Spec == Init /\ [][Next]_vars

\* ------------------------------------------------ feed builder on its own
\* Direct publish calls on one site's feed document, with no content
\* directory.  The n-th call carries snapshot key n; items other than the
\* default one are drawn at most MaxSpecial times.
DefaultHash == <<"aaaaaaaa", "1">>
FeedInputs(n) ==
  {RssItem(title, Text(page, NoDiff), n * TicksPerSecond, h, n) :
     title \in Titles, page \in PageDescs, h \in Hashes}
IsDefault(item) == item.description.page = PlainDesc /\ item.hash = DefaultHash

PublishCall ==
  /\ nPublish < MaxPublish
  /\ \E item \in FeedInputs(nPublish + 1) :
       /\ IsDefault(item) \/ specials < MaxSpecial
       /\ specials' = IF IsDefault(item) THEN specials ELSE specials + 1
       /\ feed' = create_or_update_feed(feed, snapshots, item, "none")
  /\ nPublish' = nPublish + 1
  /\ UNCHANGED others
  /\ UNCHANGED <<clock, metadata, snapshots, pc, req, content_data,
                 save_result, exc, result, pre, log, lastCheck, runs>>

NextFeed == PublishCall

SpecFeed == Init /\ [][NextFeed]_vars

\* ------------------------------------------- the feed loader on any document
\* Publish calls on a site whose feed document is any document of up to
\* MaxLoadItems items: missing, truncated, or well-formed with pubDate
\* texts that parse or do not.
LoadItem(i, pubDate) ==
  [title |-> "T",
   link |-> [filename |-> 0 - (i + 1), date |-> 0],
   description |-> Text(PlainDesc, NoDiff),
   pubDate |-> pubDate,
   guid |-> <<FeedName, "aaaaaaaa">>]
LoadDocs ==
  {NoFeed, TruncatedFeed} \cup
  UNION {{[exists |-> TRUE, wellformed |-> TRUE, link |-> NoneInt,
           items |-> [i \in 1..n |-> LoadItem(i, pd[i])]] :
            pd \in [1..n -> {0, BadPubDate}]} : n \in 0..MaxLoadItems}

InitLoad ==
  /\ clock = [hour |-> 0, tick |-> 0]
  /\ metadata = EmptyMetadata
  /\ snapshots = <<>>
  /\ feed \in LoadDocs
  /\ pc = "idle"
  /\ req = NoRequest
  /\ content_data = NoData
  /\ save_result = NoSave
  /\ exc = ""
  /\ result = NoResult
  /\ pre = NoPersisted
  /\ log = <<>>
  /\ lastCheck = [t |-> NoneInt, min_hours |-> NoneInt]
  /\ runs = 0
  /\ nPublish = 0
  /\ specials = 0
  /\ OthersAtRest

SpecLoad == InitLoad /\ [][NextFeed]_vars

\* ------------------------------------------- a site with one stored version
\* The persisted state one run leaves behind that fetched PageA at time 0
\* on a fresh site; the runs of SpecStored start from it.
FirstData == ContentData(PageA.hash, PageA.title, PageA.description, 0)
FirstSave == save_content(EmptyMetadata, <<>>, FirstData, 0, "none")
FirstFeed ==
  create_or_update_feed(
    NoFeed, FirstSave.snapshots,
    RssItem(FirstData.title, Description(FirstData, FirstSave.ret.diff),
            FirstData.timestamp, FirstData.hash, FirstSave.ret.filename),
    "none")

InitStored ==
  /\ clock = [hour |-> 0, tick |-> 0]
  /\ metadata = FirstSave.metadata
  /\ snapshots = FirstSave.snapshots
  /\ feed = FirstFeed
  /\ pc = "idle"
  /\ req = NoRequest
  /\ content_data = NoData
  /\ save_result = NoSave
  /\ exc = ""
  /\ result = NoResult
  /\ pre = NoPersisted
  /\ log = <<>>
  /\ lastCheck = [t |-> NoneInt, min_hours |-> NoneInt]
  /\ runs = 0
  /\ nPublish = 0
  /\ specials = 0
  /\ OthersAtRest

SpecStored == InitStored /\ [][Next]_vars

\* The stored site is a state the pipeline reaches from a fresh site.
StoredSiteReached ==
  /\ pc = "idle"
  /\ metadata = FirstSave.metadata
  /\ snapshots = FirstSave.snapshots
  /\ feed = FirstFeed

\* ------------------------------------------------------------------ helpers
InLog(x) == \E i \in 1..Len(log) : log[i] = x
NWrites(x) == Cardinality({i \in 1..Len(log) : log[i] = x})
\* save_content ran in this run and raised.
PersistRaised == InLog("persist") /\ exc # "" /\ ~InLog("publish")
\* The entries a reader of the feed document finds in it.
Entries(doc) == IF doc.exists /\ doc.wellformed THEN doc.items ELSE <<>>
\* The persist and publish steps of the run so far, in order.
IsStep(x) == x \in {"persist", "publish"}
Steps == SelectSeq(log, IsStep)

\* ------------------------------------------------------------------- claims

\* C1: save_content writes no snapshot artifact and leaves the metadata
\* record unchanged if and only if the fetched fingerprint equals the stored
\* last_hash (an absent last_hash counts as changed); in every other call
\* that returns, it writes exactly one snapshot artifact, under the new key
\* and holding the fetched content, and sets last_hash, last_update and
\* last_filename.
C1_ChangeGating ==
  (InLog("persist") /\ ~content_data.error /\ ~pre.metadata.corrupt) =>
    LET same == content_data.hash = pre.metadata.last_hash
        noop == /\ metadata = pre.metadata
                /\ snapshots = pre.snapshots
                /\ NWrites("w_artifact") = 0
                /\ NWrites("w_metadata") = 0
        key == save_result.filename
    IN /\ same => noop /\ ~save_result.saved /\ ~PersistRaised
       /\ (noop /\ ~PersistRaised) => same
       /\ (~same /\ ~PersistRaised) =>
            /\ save_result.saved
            /\ NWrites("w_artifact") = 1
            /\ DOMAIN snapshots = DOMAIN pre.snapshots \cup {key}
            /\ snapshots[key] = Artifact(content_data)
            /\ \A k \in DOMAIN pre.snapshots \ {key} : snapshots[k] = pre.snapshots[k]
            /\ metadata.last_hash = content_data.hash
            /\ metadata.last_update = content_data.timestamp
            /\ metadata.last_filename = key
            /\ ~metadata.corrupt

\* C1 witness: save_content has run on a fingerprint equal to the stored
\* last_hash.
C1_Witness ==
  /\ InLog("persist")
  /\ ~content_data.error
  /\ pre.metadata.last_hash = content_data.hash
  /\ pc = "done"

\* C2 (as claimed): after N publish calls on a site that had no feed
\* document, the document holds exactly min(N, 20) entries, newest first.
C2_FeedCap ==
  LET es == Entries(feed)
  IN /\ Len(es) = Min2(nPublish, FeedCap)
     /\ \A i, j \in 1..Len(es) : i < j => es[i].link.filename > es[j].link.filename

\* C3 (as claimed): a publish yields a document whose first entry is the
\* new entry and whose remaining entries are the first 19 entries of the
\* previous document, unchanged.  Stated for publishes between two
\* documents a parser accepts.
C3_PrependPreserve ==
  [][(nPublish' = nPublish + 1 /\ feed'.wellformed /\ (feed.exists => feed.wellformed)) =>
       LET old == Entries(feed)
           new == Entries(feed')
       IN /\ Len(new) >= 1
          /\ new[1].link.filename = nPublish + 1
          /\ Tail(new) = Take(old, KeptExisting)]_vars

\* C4 (as claimed): every persist that detects a change allocates a key
\* strictly greater than every existing key of the site, and no existing
\* snapshot artifact is overwritten or deleted.  Stated for the snapshot
\* the metadata record names as the last stored one.
C4_AppendOnly ==
  (InLog("persist") /\ save_result.saved /\ pre.metadata.last_filename # NoneInt) =>
    LET k == pre.metadata.last_filename
    IN /\ k < save_result.filename
       /\ k \in DOMAIN snapshots
       /\ snapshots[k] = pre.snapshots[k]

\* C5: when the snapshot artifact write fails, save_content aborts with the
\* metadata record exactly as before the call, and no metadata write was
\* attempted.
C5_ArtifactFailure ==
  (InLog("persist") /\ exc = "OSError: artifact") =>
    /\ metadata = pre.metadata
    /\ NWrites("w_metadata") = 0
    /\ ~save_result.saved
    /\ pc \in {"except", "done"}

\* C5 witness: the artifact write failed on a site that had a stored version.
C5_Witness ==
  /\ exc = "OSError: artifact"
  /\ pre.metadata.last_hash # NoneHash
  /\ pc = "done"

\* C6: whatever step raises, the run ends with a result that has
\* success=false, changed=false and an error message, and no exception
\* leaves scrape_and_update_feed.
C6_ErrorBoundary ==
  /\ pc # "propagated"
  /\ (pc = "done" /\ exc # "") =>
       /\ ~result.success
       /\ ~result.changed
       /\ result.error_message = exc
       /\ result.error_message # NoneStr

\* C6 witness: the publish step raised and the run has ended.
C6_Witness == pc = "done" /\ exc = "OSError: feed"

\* C7: with min_hours = h and a stored timestamp t, the gate stops the run
\* if and only if now - t < h hours; with no stored timestamp or no
\* min_hours the run goes on to fetch.
C7_CadenceGate ==
  [][(pc = "gate" /\ ~metadata.corrupt) =>
       LET h == req.min_hours
           t == metadata.last_update
       IN IF h # NoneInt /\ t # NoneInt
          THEN /\ (pc' = "done" /\ result'.skipped) <=> (Now - t < h * TicksPerHour)
               /\ (pc' = "fetch") <=> ~(Now - t < h * TicksPerHour)
          ELSE pc' = "fetch"]_vars

\* C7 witness: the gate let a run pass exactly min_hours after the stored
\* timestamp.
C7_Witness ==
  /\ pc = "fetch"
  /\ req.min_hours = 1
  /\ metadata.last_update # NoneInt
  /\ Now - metadata.last_update = TicksPerHour

\* C8 (as claimed): once a run with min_hours = h has passed the gate,
\* fetched at time t and ended in success, every later run with the same
\* min_hours started before t + h is skipped.
C8_GateFromLastCheck ==
  (/\ InLog("gate")
   /\ ~metadata.corrupt
   /\ lastCheck.t # NoneInt
   /\ req.min_hours = lastCheck.min_hours
   /\ req.started < lastCheck.t + req.min_hours * TicksPerHour)
  => (pc = "done" /\ result.skipped)

\* C9: a run the cadence gate stops returns success=true, changed=false,
\* skipped=true, fetches nothing, and leaves the snapshots, the metadata
\* record and the feed document as they were.
C9_SkippedRun ==
  (/\ InLog("gate")
   /\ ~pre.metadata.corrupt
   /\ req.min_hours # NoneInt
   /\ pre.metadata.last_update # NoneInt
   /\ req.started - pre.metadata.last_update < req.min_hours * TicksPerHour)
  => /\ pc = "done"
     /\ result.success /\ ~result.changed /\ result.skipped
     /\ log = <<"gate">>
     /\ Persisted = pre

\* C9 witness: the gate has stopped a run.
C9_Witness == pc = "done" /\ log = <<"gate">> /\ result.skipped

\* C10: a run whose fetched fingerprint equals the stored last_hash returns
\* success=true, changed=false with that fingerprint, writes no snapshot,
\* does not publish, and leaves the metadata record, the snapshots and the
\* feed document as they were.
C10_UnchangedRun ==
  (/\ InLog("persist")
   /\ ~content_data.error
   /\ content_data.hash = pre.metadata.last_hash)
  => /\ pc = "done"
     /\ result = ScraperResult(TRUE, FALSE, FALSE, NoneInt, NoneStr, NoneStr,
                               content_data.hash)
     /\ ~InLog("publish")
     /\ NWrites("w_artifact") = 0 /\ NWrites("w_metadata") = 0 /\ NWrites("w_feed") = 0
     /\ Persisted = pre

\* C10 witness: an unchanged run on a site whose feed already has an entry.
C10_Witness ==
  /\ pc = "done"
  /\ InLog("persist")
  /\ result.success /\ ~result.changed /\ ~result.skipped
  /\ Len(Entries(feed)) >= 1

\* C11 (as claimed): a run whose fetch returned the failure record ends
\* with success=false, changed=false and an error message that describes
\* the fetch failure, and writes no snapshot, metadata record or feed.
C11_ExtractionFailure ==
  (pc = "done" /\ content_data.error) =>
    /\ ~result.success
    /\ ~result.changed
    /\ result.error_message \in
         {content_data.error_message, "Failed to fetch content from URL"}
    /\ NWrites("w_artifact") = 0 /\ NWrites("w_metadata") = 0 /\ NWrites("w_feed") = 0
    /\ Persisted = pre

\* C12: a run that detects a change and publishes it performs persist and
\* then publish once each, in that order, and returns success=true,
\* changed=true with the new snapshot key as filename, feeds/demo.xml as
\* feed_path and the fetched fingerprint as content_hash; the first entry
\* of the written feed names the same snapshot and fingerprint.
C12_ChangedRun ==
  (pc = "done" /\ save_result.saved /\ exc = "") =>
    LET key == save_result.filename
    IN /\ Steps = <<"persist", "publish">>
       /\ result = ScraperResult(TRUE, TRUE, FALSE, key, "feeds/demo.xml",
                                 NoneStr, content_data.hash)
       /\ key \in DOMAIN snapshots
       /\ snapshots[key] = Artifact(content_data)
       /\ metadata.last_filename = key
       /\ Len(feed.items) >= 1
       /\ feed.items[1].link.filename = key
       /\ feed.items[1].guid = <<FeedName, content_data.hash[1]>>

\* C12 witness: a changed run has ended on a site that already had a
\* stored version.
C12_Witness ==
  /\ pc = "done"
  /\ result.changed
  /\ pre.metadata.last_hash # NoneHash
  /\ Len(feed.items) = 2

\* C13: when the publish step fails in a run that detected a change, the
\* run is reported as a failure, the new snapshot artifact is stored, the
\* metadata record names the new fingerprint and snapshot key, and the
\* feed document has gained no entry.
C13_PublishFailure ==
  (InLog("publish") /\ exc = "OSError: feed") =>
    LET key == save_result.filename
    IN /\ pc \in {"except", "done"}
       /\ pc = "done" => (~result.success /\ ~result.changed)
       /\ key \in DOMAIN snapshots
       /\ snapshots[key] = Artifact(content_data)
       /\ metadata.last_hash = content_data.hash
       /\ metadata.last_update = content_data.timestamp
       /\ metadata.last_filename = key
       /\ ~metadata.corrupt
       /\ feed.items \in {pre.feed.items, <<>>}

\* C13 witness: the publish of a second version failed and the run ended.
C13_Witness ==
  /\ pc = "done"
  /\ exc = "OSError: feed"
  /\ pre.metadata.last_hash # NoneHash
  /\ metadata.last_hash # pre.metadata.last_hash

\* C14 (as claimed): whenever the diff step of save_content fails, the call
\* still updates the metadata record and returns the new snapshot key with
\* a null diff.  Stated for calls that stored the new snapshot under a key
\* of its own.
C14_DiffFailure ==
  (InLog("diff_failed") /\ DOMAIN snapshots # DOMAIN pre.snapshots) =>
    /\ save_result.saved
    /\ save_result.diff = NoneDiff
    /\ save_result.filename \in DOMAIN snapshots
    /\ metadata.last_hash = content_data.hash
    /\ metadata.last_filename = save_result.filename

\* C15 (as claimed): the diff save_content returns is the diff between the
\* new snapshot and the snapshot last_filename named just before the call;
\* it is null for the first snapshot of a site or when that artifact does
\* not exist.  Stated for calls whose diff step did not fail.
C15_DiffAgainstPrevious ==
  (save_result.saved /\ ~InLog("diff_failed")) =>
    LET prev == pre.metadata.last_filename
    IN IF prev # NoneInt /\ prev \in DOMAIN pre.snapshots
       THEN save_result.diff =
              get_html_diff(Artifact(content_data), pre.snapshots[prev], TRUE)
       ELSE save_result.diff = NoneDiff

\* Entries that share a fingerprint prefix with a published one and differ
\* from it in title, timestamp, snapshot file or the rest of the
\* fingerprint.
GuidInputs ==
  {RssItem("U", Text(PlainDesc, NoDiff), 7, h, 7) :
     h \in Hashes \cup {<<"aaaaaaaa", "2">>}}
GuidOf(doc) == doc.items[1].guid

\* The entries with an ordinary description the next publish call can carry.
NextInputs ==
  {a \in FeedInputs(nPublish + 1) : a.description.page = PlainDesc}

\* C16: the guid of a published entry depends on the feed name and the
\* first 8 characters of the fingerprint only: a publish on the current
\* document and a publish of another entry with the same prefix on a site
\* without feed document write the same guid, made of the feed name and
\* that prefix.
C16_GuidDeterministic ==
  \A a \in NextInputs :
    LET guid == GuidOf(create_or_update_feed(feed, snapshots, a, "none"))
    IN /\ guid = <<FeedName, a.hash[1]>>
       /\ \A b \in GuidInputs :
            a.hash[1] = b.hash[1] =>
              guid = GuidOf(create_or_update_feed(NoFeed, <<>>, b, "none"))

\* C16 witness: the feed holds two entries published with the same
\* fingerprint and different snapshot files.
C16_Witness ==
  \E i, j \in 1..Len(feed.items) :
    /\ i < j
    /\ feed.items[i].guid = feed.items[j].guid
    /\ feed.items[i].link.filename # feed.items[j].link.filename

\* C17 (as claimed): in every feed document pipeline runs can produce, no
\* two entries carry the same guid.  Stated for documents of three or more
\* entries that name different snapshot files and carry the diff to their
\* predecessor.
C17_GuidUnique ==
  LET es == Entries(feed)
  IN (/\ Len(es) >= 3
      /\ \A i, j \in 1..Len(es) : i # j => es[i].link.filename # es[j].link.filename
      /\ \A i \in 1..(Len(es) - 1) : es[i].description.diff # NoDiff)
     => \A i, j \in 1..Len(es) : i # j => es[i].guid # es[j].guid

\* The entry the current run hands to create_or_update_feed.
RunItem ==
  RssItem(content_data.title, Description(content_data, save_result.diff),
          content_data.timestamp, content_data.hash, save_result.filename)

\* C18 (as claimed): when a publish fails, the persisted feed document is
\* either the complete previous document or the complete new one.  Stated
\* for a site whose feed document held an entry before the run, and a run
\* whose persist stored a snapshot under a key of its own with its diff.
C18_AtomicFeed ==
  (/\ InLog("publish")
   /\ exc = "OSError: feed"
   /\ Len(Entries(pre.feed)) >= 1
   /\ DOMAIN snapshots # DOMAIN pre.snapshots
   /\ ~InLog("diff_failed")) =>
    \/ feed = pre.feed
    \/ feed = create_or_update_feed(pre.feed, snapshots, RunItem, "none")

\* Every part of the document can be parsed.
Parseable(doc) ==
  /\ doc.exists
  /\ doc.wellformed
  /\ \A i \in 1..Len(doc.items) : doc.items[i].pubDate # BadPubDate

\* C19 (as claimed): when the feed document is missing, or any part of it
\* cannot be parsed, loading it yields no entries, so the publish writes a
\* document that holds the new entry only.
C19_LoadFailOpen ==
  [][(nPublish' = nPublish + 1 /\ ~Parseable(feed)) =>
       /\ load_existing_items(feed) = <<>>
       /\ Len(feed'.items) = 1]_vars

\* C20: every publish sets the channel link to the greatest snapshot key
\* of the site's content directory when there is one, and to the feed
\* document's own location when there is none; in a pipeline run the
\* greatest key is the key of the snapshot that run has written.
C20_ChannelLink ==
  /\ pc = "publish" =>
       /\ DOMAIN snapshots # {}
       /\ create_or_update_feed(feed, snapshots, RunItem, "none").link =
            Max(DOMAIN snapshots)
       /\ create_or_update_feed(feed, <<>>, RunItem, "none").link = NoneInt
  /\ (InLog("w_feed") /\ exc = "") =>
       /\ feed.link = Max(DOMAIN snapshots)
       /\ feed.link = save_result.filename
       /\ snapshots[feed.link] = Artifact(content_data)

\* C20 witness: a run has published on a site that holds an older snapshot
\* as well.
C20_Witness ==
  /\ pc = "done"
  /\ result.changed
  /\ Cardinality(DOMAIN snapshots) >= 2
  /\ feed.link = save_result.filename

\* C21: the entry a pipeline run publishes links to the snapshot key that
\* run's persist has written, with the capture timestamp of that snapshot
\* as date parameter; the snapshot artifact is in the store at the publish,
\* and the artifact every entry of the feed names is in the store in every
\* later state.
C21_EntrySnapshot ==
  /\ \A i \in 1..Len(feed.items) : feed.items[i].link.filename \in DOMAIN snapshots
  /\ (InLog("w_feed") /\ exc = "") =>
       LET e == feed.items[1]
       IN /\ e.link = [filename |-> save_result.filename,
                       date |-> content_data.timestamp]
          /\ NWrites("w_artifact") = 1
          /\ snapshots[e.link.filename].timestamp = e.link.date

\* C21 witness: a second entry has been published, for a snapshot whose
\* capture and persist fell into different seconds.
C21_Witness ==
  /\ pc = "done"
  /\ result.changed
  /\ Len(feed.items) = 2
  /\ FormatKey(content_data.timestamp) # save_result.filename

\* ------------------------------------------------------ concurrent processes
\* Several processes each run scrape_and_update_feed once, step by step.
\* Every access to a file is one step; nothing locks a file or a directory.
ProcIds == {1, 2}
SiteNames == {"demo", "other"}

\* Mutant: every site's snapshots and metadata share one directory.
ContentDir_shared(feed_name) == <<"content">>
\* storage.py 12: the snapshot directory of a site.
ContentDir(feed_name) == <<"content", feed_name>>
\* storage.py 14: the metadata record of a site.
MetadataFile(feed_name) == ContentDir(feed_name) \o <<".metadata.json">>
\* rss_manager.py 18: the feed document of a site.
FeedPath(feed_name) == <<"feeds", feed_name>>

AllPaths ==
  UNION {{ContentDir(n), MetadataFile(n), FeedPath(n)} : n \in SiteNames}

\* rss_manager.py 72: the identifier carries the manager's feed name.
EntryOf(feed_name, d) ==
  [d EXCEPT !.unique_id = <<feed_name, d.unique_id[2]>>]
ElemOf(feed_name, e) == [e EXCEPT !.guid = <<feed_name, e.guid[2]>>]
SiteFeed(feed_name, doc) ==
  [doc EXCEPT !.items = [i \in 1..Len(doc.items) |-> ElemOf(feed_name, doc.items[i])]]

\* The file at a path before any process runs: a fresh site, or one an
\* earlier run has stored PageA on.
InitialFile(path, stored) ==
  IF path[Len(path)] = ".metadata.json"
  THEN IF stored THEN FirstSave.metadata ELSE EmptyMetadata
  ELSE IF path[1] = "feeds"
  THEN IF stored THEN SiteFeed(path[2], FirstFeed) ELSE NoFeed
  ELSE IF stored THEN FirstSave.snapshots ELSE <<>>

\* What is persisted for one site.
SiteState(files, feed_name) ==
  [metadata |-> files[MetadataFile(feed_name)],
   snapshots |-> files[ContentDir(feed_name)],
   feed |-> files[FeedPath(feed_name)]]

IdleProc(feed_name, site) ==
  [pc |-> "idle", feed_name |-> feed_name, cd |-> NoData, now |-> NoneInt,
   key |-> NoneInt, md |-> EmptyMetadata, diff |-> NoneDiff,
   latest |-> NoneInt, existing |-> <<>>, result |-> NoResult, pre |-> site]

InitProcs ==
  /\ PipelineAtRest
  /\ \E stored \in BOOLEAN :
       /\ fs = [path \in AllPaths |-> InitialFile(path, stored)]
       /\ \E n \in SiteNames :
            procs = [p \in ProcIds |->
                       IdleProc(IF p = 1 THEN FeedName ELSE n,
                                SiteState(fs, IF p = 1 THEN FeedName ELSE n))]
  /\ overlap = FALSE
  /\ batch = <<>>
  /\ diff_in = <<>>
  /\ diff_out = <<>>

Active(p) == procs[p].pc \notin {"idle", "done"}

\* lib.py 19-23: the run begins.
StartRun(p) ==
  /\ procs[p].pc = "idle"
  /\ procs' = [procs EXCEPT ![p].pc = "fetch"]
  /\ overlap' = (overlap \/ \E q \in ProcIds \ {p} : Active(q))
  /\ UNCHANGED <<fs, batch, diff_in, diff_out>>
  /\ UNCHANGED pipeline

\* lib.py 35: the page is fetched.
FetchPage(p) ==
  /\ procs[p].pc = "fetch"
  /\ \E page \in Pages :
       procs' = [procs EXCEPT
                   ![p].cd = ContentData(page.hash, page.title,
                                         page.description, Now),
                   ![p].pc = "check"]
  /\ UNCHANGED <<fs, overlap, batch, diff_in, diff_out>>
  /\ UNCHANGED pipeline

\* storage.py 101-108: the metadata record is read and compared, and a
\* changed page gets its snapshot name from the clock.
CheckChanged(p) ==
  /\ procs[p].pc = "check"
  /\ LET md == fs[MetadataFile(procs[p].feed_name)]
     IN IF has_content_changed(md, procs[p].cd.hash)
        THEN procs' = [procs EXCEPT ![p].now = Now,
                                    ![p].key = FormatKey(Now),
                                    ![p].pc = "write_artifact"]
        ELSE procs' = [procs EXCEPT
                         ![p].result = UnchangedResult(procs[p].cd.hash),
                         ![p].pc = "done"]
  /\ UNCHANGED <<fs, overlap, batch, diff_in, diff_out>>
  /\ UNCHANGED pipeline

\* storage.py 176-178: the snapshot artifact is written.
WriteArtifact(p) ==
  /\ procs[p].pc = "write_artifact"
  /\ fs' = [fs EXCEPT ![ContentDir(procs[p].feed_name)] =
                        WriteFile(@, procs[p].key, Artifact(procs[p].cd))]
  /\ procs' = [procs EXCEPT ![p].pc = "read_metadata"]
  /\ UNCHANGED <<overlap, batch, diff_in, diff_out>>
  /\ UNCHANGED pipeline

\* storage.py 181-188: the metadata record is read again and the diff to
\* the snapshot it names is computed.
ReadMetadata(p) ==
  /\ procs[p].pc = "read_metadata"
  /\ LET md == fs[MetadataFile(procs[p].feed_name)]
         dir == fs[ContentDir(procs[p].feed_name)]
         hasOld == md.last_filename # NoneInt /\ md.last_filename \in DOMAIN dir
     IN procs' = [procs EXCEPT
                    ![p].md = md,
                    ![p].diff = IF hasOld
                                THEN get_html_diff(dir[procs[p].key],
                                                   dir[md.last_filename], TRUE)
                                ELSE NoneDiff,
                    ![p].pc = "write_metadata"]
  /\ UNCHANGED <<fs, overlap, batch, diff_in, diff_out>>
  /\ UNCHANGED pipeline

\* storage.py 190-195: the metadata record is written.
WriteMetadata(p) ==
  /\ procs[p].pc = "write_metadata"
  /\ fs' = [fs EXCEPT ![MetadataFile(procs[p].feed_name)] =
                        UpdatedMetadata(procs[p].md, procs[p].cd, procs[p].key)]
  /\ procs' = [procs EXCEPT ![p].pc = "latest_file"]
  /\ UNCHANGED <<overlap, batch, diff_in, diff_out>>
  /\ UNCHANGED pipeline

\* rss_manager.py 50: the snapshot directory is listed.
LatestFile(p) ==
  /\ procs[p].pc = "latest_file"
  /\ procs' = [procs EXCEPT
                 ![p].latest =
                   get_latest_content_file(fs[ContentDir(procs[p].feed_name)]),
                 ![p].pc = "load_items"]
  /\ UNCHANGED <<fs, overlap, batch, diff_in, diff_out>>
  /\ UNCHANGED pipeline

\* rss_manager.py 58: the feed document is read.
LoadItems(p) ==
  /\ procs[p].pc = "load_items"
  /\ procs' = [procs EXCEPT
                 ![p].existing =
                   load_existing_items(fs[FeedPath(procs[p].feed_name)]),
                 ![p].pc = "write_feed"]
  /\ UNCHANGED <<fs, overlap, batch, diff_in, diff_out>>
  /\ UNCHANGED pipeline

\* rss_manager.py 61-84 and lib.py 72-78: the feed document is written and
\* the run reports the change.
WriteFeed(p) ==
  /\ procs[p].pc = "write_feed"
  /\ LET me == procs[p]
         rss_item == RssItem(me.cd.title, Description(me.cd, me.diff),
                             me.cd.timestamp, me.cd.hash, me.key)
         items == <<EntryOf(me.feed_name, NewItemDict(rss_item))>>
                    \o Take(me.existing, KeptExisting)
     IN /\ fs' = [fs EXCEPT ![FeedPath(me.feed_name)] =
                              write_rss_feed(me.latest, items)]
        /\ procs' = [procs EXCEPT
                       ![p].result = ChangedResult(me.key, me.cd.hash),
                       ![p].pc = "done"]
  /\ UNCHANGED <<overlap, batch, diff_in, diff_out>>
  /\ UNCHANGED pipeline

\* The wall clock advances between any two steps of the processes.  No run
\* here is gated on hours, so the clock advances by ticks only.
TickProcs ==
  /\ clock.tick < MaxTick
  /\ clock' = [clock EXCEPT !.tick = @ + 1]
  /\ UNCHANGED others
  /\ UNCHANGED <<metadata, snapshots, feed, pc, req, content_data, save_result,
                 exc, result, pre, log, lastCheck, runs, nPublish,
                 specials>>

NextProcs ==
  \/ TickProcs
  \/ \E p \in ProcIds : StartRun(p)
  \/ \E p \in ProcIds : FetchPage(p)
  \/ \E p \in ProcIds : CheckChanged(p)
  \/ \E p \in ProcIds : WriteArtifact(p)
  \/ \E p \in ProcIds : ReadMetadata(p)
  \/ \E p \in ProcIds : WriteMetadata(p)
  \/ \E p \in ProcIds : LatestFile(p)
  \/ \E p \in ProcIds : LoadItems(p)
  \/ \E p \in ProcIds : WriteFeed(p)

SpecProcs == InitProcs /\ [][NextProcs]_vars

\* The persisted state of the site of process p had its run been the only
\* one: save_content and create_or_update_feed applied to the site as it
\* was before any process ran.
SerialRun(p) ==
  LET me == procs[p]
      o == save_content(me.pre.metadata, me.pre.snapshots, me.cd, me.now, "none")
  IN [metadata |-> o.metadata,
      snapshots |-> o.snapshots,
      feed |-> IF o.ret.saved
               THEN SiteFeed(me.feed_name,
                      create_or_update_feed(
                        me.pre.feed, o.snapshots,
                        RssItem(me.cd.title, Description(me.cd, o.ret.diff),
                                me.cd.timestamp, me.cd.hash, o.ret.filename),
                        "none"))
               ELSE me.pre.feed]

AllDone == \A p \in ProcIds : procs[p].pc = "done"
SameSite == procs[1].feed_name = procs[2].feed_name
Published == {p \in ProcIds : procs[p].result.changed}

\* C22: runs for different feed names touch disjoint files, so every
\* interleaving of them leaves each site with the persisted state the
\* site's run gives on its own.
C22_SitesIndependent ==
  (AllDone /\ ~SameSite) =>
    \A p \in ProcIds : SiteState(fs, procs[p].feed_name) = SerialRun(p)

\* Two overlapping runs on different sites both published a change.
C22_Witness ==
  /\ AllDone
  /\ ~SameSite
  /\ overlap
  /\ Published = ProcIds
  /\ procs[1].pre.feed.exists

\* The entries of the site's feed document that name the fingerprint h.
EntriesFor(feed_name, h) ==
  LET doc == fs[FeedPath(feed_name)]
  IN {i \in 1..Len(doc.items) : doc.items[i].guid = <<feed_name, h[1]>>}

\* Two runs published the same fetched fingerprint.
PublishedTwice ==
  Published = ProcIds /\ procs[1].cd.hash = procs[2].cd.hash

\* Some published entry is no longer in the feed document.
EntryLost ==
  Len(fs[FeedPath(procs[1].feed_name)].items)
    < Len(procs[1].pre.feed.items) + Cardinality(Published)

C23_LostEntry ==
  /\ AllDone
  /\ SameSite
  /\ overlap
  /\ Published = ProcIds
  /\ procs[1].cd.hash # procs[2].cd.hash
  /\ EntryLost

\* ---------------------------------------------------------------- batch runner
\* cli_batch.main: the arguments and the configuration file are the inputs,
\* fixed when the runner starts; the outcome of each call of the
\* orchestrator is drawn when the call is made.
MaxSites == 2

\* One element of the configured sites array: a table with its url and
\* feed_name values (NoneStr: key absent), or a value that is not a table.
SiteEntry(table, url, feed_name) ==
  [table |-> table, url |-> url, feed_name |-> feed_name]
GoodEntry == SiteEntry(TRUE, "https://example.com", FeedName)
NoUrlEntry == SiteEntry(TRUE, NoneStr, FeedName)
EmptyNameEntry == SiteEntry(TRUE, "https://example.com", "")
StringEntry == SiteEntry(FALSE, NoneStr, NoneStr)
SiteEntries == {GoodEntry, NoUrlEntry, EmptyNameEntry, StringEntry}

Configs == UNION {[1..n -> SiteEntries] : n \in 0..MaxSites}
Subdirectories == {"/", "tracker"}
ConfigFiles == {"missing", "unreadable", "readable"}

\* cli_batch.py 87: not url or not feed_name.
Falsy(v) == v = NoneStr \/ v = ""
InvalidSite(site) == Falsy(site.url) \/ Falsy(site.feed_name)

\* What a call of scrape_and_update_feed can hand back.
Outcomes ==
  {ErrorResult("Failed to fetch content from URL"), SkippedResult,
   UnchangedResult(PageA.hash), ChangedResult(0, PageB.hash)}

\* Mutant: a skipped site counts as an error.
CountsError_skipped(r) == ~r.success \/ r.skipped
\* cli_batch.py 104: the result counts as an error.
CountsError(r) == ~r.success

\* cli_batch.py 152.
ExitStatus(errors) == IF errors > 0 THEN 1 ELSE 0

\* What the loop did with the site at one index: "invalid" (skipped as an
\* invalid entry), "result" (the orchestrator returned r) or "unexpected"
\* (the orchestrator raised).
Handled(index, kind, r) == [index |-> index, kind |-> kind, result |-> r]

InitBatch ==
  /\ PipelineAtRest
  /\ fs = <<>>
  /\ procs = <<>>
  /\ overlap = FALSE
  /\ \E sub \in Subdirectories, gen \in BOOLEAN, file \in ConfigFiles,
        configured \in Configs :
       /\ file # "readable" => configured = <<>>
       /\ batch = [pc |-> "args", subdirectory |-> sub, generate_site |-> gen,
                   file |-> file, configured |-> configured, sites |-> <<>>,
                   i |-> 0, total |-> 0, changed |-> 0, errors |-> 0,
                   handled |-> <<>>, site_failed |-> FALSE,
                   summary |-> FALSE, traceback |-> FALSE,
                   status |-> NoneInt]
  /\ diff_in = <<>>
  /\ diff_out = <<>>

\* sys.exit(status), or the interpreter ending on an uncaught exception.
Exited(b, status, traceback) ==
  [b EXCEPT !.pc = "exited", !.status = status, !.traceback = traceback]

\* cli_batch.py 43-46.
ValidateArgs ==
  /\ batch.pc = "args"
  /\ batch' = IF batch.subdirectory # "" /\ batch.subdirectory # "/"
              THEN Exited(batch, 1, FALSE)
              ELSE [batch EXCEPT !.pc = "config"]
  /\ UNCHANGED <<fs, procs, overlap, diff_in, diff_out>>
  /\ UNCHANGED pipeline

\* cli_batch.py 48-59.
LoadConfig ==
  /\ batch.pc = "config"
  /\ batch' = IF batch.file # "readable"
              THEN Exited(batch, 1, FALSE)
              ELSE [batch EXCEPT !.pc = "sites"]
  /\ UNCHANGED <<fs, procs, overlap, diff_in, diff_out>>
  /\ UNCHANGED pipeline

\* cli_batch.py 61-80.
FindSites ==
  /\ batch.pc = "sites"
  /\ batch' = IF batch.configured = <<>>
              THEN Exited(batch, 1, FALSE)
              ELSE [batch EXCEPT !.sites = batch.configured,
                                 !.total = Len(batch.configured),
                                 !.changed = 0, !.errors = 0, !.i = 1,
                                 !.pc = "loop"]
  /\ UNCHANGED <<fs, procs, overlap, diff_in, diff_out>>
  /\ UNCHANGED pipeline

\* The loop moves to the next site, or to the summary after the last one.
Advance(b) ==
  [b EXCEPT !.i = @ + 1,
            !.pc = IF b.i + 1 > b.total THEN "summary" ELSE "loop"]

\* cli_batch.py 84: site.get on an element that is not a table raises
\* AttributeError outside the try statement.
GetUrlRaises ==
  /\ batch.pc = "loop"
  /\ ~batch.sites[batch.i].table
  /\ batch' = Exited(batch, 1, TRUE)
  /\ UNCHANGED <<fs, procs, overlap, diff_in, diff_out>>
  /\ UNCHANGED pipeline

\* cli_batch.py 84-90.
SkipInvalid ==
  /\ batch.pc = "loop"
  /\ batch.sites[batch.i].table
  /\ InvalidSite(batch.sites[batch.i])
  /\ batch' = Advance([batch EXCEPT
                         !.errors = @ + 1,
                         !.handled = Append(@, Handled(batch.i, "invalid", NoResult))])
  /\ UNCHANGED <<fs, procs, overlap, diff_in, diff_out>>
  /\ UNCHANGED pipeline

\* cli_batch.py 92-113: the orchestrator returns.
ProcessSite ==
  /\ batch.pc = "loop"
  /\ batch.sites[batch.i].table
  /\ ~InvalidSite(batch.sites[batch.i])
  /\ \E r \in Outcomes :
       batch' = Advance([batch EXCEPT
                  !.errors = IF CountsError(r) THEN @ + 1 ELSE @,
                  !.changed = IF ~CountsError(r) /\ ~r.skipped /\ r.changed
                              THEN @ + 1 ELSE @,
                  !.handled = Append(@, Handled(batch.i, "result", r))])
  /\ UNCHANGED <<fs, procs, overlap, diff_in, diff_out>>
  /\ UNCHANGED pipeline

\* cli_batch.py 101-102, 115-117: the orchestrator raises.
ProcessRaises ==
  /\ batch.pc = "loop"
  /\ batch.sites[batch.i].table
  /\ ~InvalidSite(batch.sites[batch.i])
  /\ batch' = Advance([batch EXCEPT
                         !.errors = @ + 1,
                         !.handled = Append(@, Handled(batch.i, "unexpected", NoResult))])
  /\ UNCHANGED <<fs, procs, overlap, diff_in, diff_out>>
  /\ UNCHANGED pipeline

\* cli_batch.py 119-149: the summary, and the static site when requested.
Summary ==
  /\ batch.pc = "summary"
  /\ \E failed \in BOOLEAN :
       /\ failed => batch.generate_site
       /\ batch' = [batch EXCEPT
                      !.summary = TRUE,
                      !.site_failed = failed,
                      !.errors = IF failed THEN @ + 1 ELSE @,
                      !.pc = "exit"]
  /\ UNCHANGED <<fs, procs, overlap, diff_in, diff_out>>
  /\ UNCHANGED pipeline

\* cli_batch.py 152.
Exit ==
  /\ batch.pc = "exit"
  /\ batch' = Exited(batch, ExitStatus(batch.errors), FALSE)
  /\ UNCHANGED <<fs, procs, overlap, diff_in, diff_out>>
  /\ UNCHANGED pipeline

NextBatch ==
  \/ ValidateArgs
  \/ LoadConfig
  \/ FindSites
  \/ GetUrlRaises
  \/ SkipInvalid
  \/ ProcessSite
  \/ ProcessRaises
  \/ Summary
  \/ Exit

SpecBatch == InitBatch /\ [][NextBatch]_vars

\* The indexes of the configured sites the loop handled, in the order it
\* handled them.
HandledIndexes == [k \in 1..Len(batch.handled) |-> batch.handled[k].index]

\* C24: when the batch run has ended, the loop has handled every configured
\* site that is a table exactly once, in configuration order, whatever
\* happened to the sites before it.
C24_EverySiteProcessed ==
  (batch.pc = "exited" /\ batch.sites # <<>>) =>
    /\ \A i \in 1..Len(batch.sites) :
         batch.sites[i].table =>
           Cardinality({k \in 1..Len(batch.handled) : HandledIndexes[k] = i}) = 1
    /\ \A k \in 1..(Len(batch.handled) - 1) :
         HandledIndexes[k] < HandledIndexes[k + 1]

\* An error the claim lets count: a site result with success = false, an
\* invalid site entry, an unexpected exception or a failed static-site
\* generation.
ErrorSeen ==
  \/ \E k \in 1..Len(batch.handled) :
       \/ batch.handled[k].kind \in {"invalid", "unexpected"}
       \/ batch.handled[k].kind = "result" /\ ~batch.handled[k].result.success
  \/ batch.site_failed

\* C25 as stated: the exit status is non-zero if and only if at least one
\* error was counted.
C25_ExitIffError ==
  batch.pc = "exited" => (batch.status # 0 <=> batch.errors > 0)

\* C25 amended: a run that reaches its summary exits non-zero if and only
\* if at least one error was counted (a failed site result, an invalid
\* entry, an unexpected exception or a failed static-site generation), so
\* skipped and unchanged sites never make its outcome non-zero; a run that
\* ends before its summary exits non-zero whether or not an error was
\* counted.
C25_ExitStatus ==
  batch.pc = "exited" =>
    /\ batch.summary => (batch.status # 0 <=> ErrorSeen)
    /\ batch.summary => (batch.errors > 0 <=> ErrorSeen)
    /\ ~batch.summary => batch.status # 0

\* A run over a skipped and an unchanged site ends with status 0.
C25_Witness ==
  /\ batch.pc = "exited"
  /\ batch.summary
  /\ batch.status = 0
  /\ Len(batch.handled) = 2
  /\ batch.handled[1].result = SkippedResult
  /\ batch.handled[2].result = UnchangedResult(PageA.hash)

\* ------------------------------------------------------------------ DiffUtils
\* A string is the sequence of its lines, as split('\n') gives them (at
\* least one line; the empty string is one empty line), and a line is the
\* sequence of its tokens: "@@", " ", "+", "-", ",", a run of digits, or a
\* word that starts with none of these.
MaxDiffLines == 2

EmptyString == << <<>> >>
Digits == {"1", "2", "3"}
Num(t) == CASE t = "1" -> 1 [] t = "2" -> 2 [] t = "3" -> 3

\* '\n'.join(lines)
Join(lines) == IF lines = <<>> THEN EmptyString ELSE lines

\* line.startswith(prefix)
StartsWith(line, prefix) ==
  Len(line) >= Len(prefix) /\ SubSeq(line, 1, Len(prefix)) = prefix

TokenAt(line, i) == IF i <= Len(line) THEN line[i] ELSE ""

\* re.match(r'@@ -(\d+),?(\d*) \+(\d+),?(\d*) @@(.*)', line): the groups,
\* with ok = FALSE when the line does not match.  A range is the run of
\* digits, an optional comma and an optional run of digits.
RangeEnd(line, i) ==
  LET afterComma == IF TokenAt(line, i + 1) = "," THEN i + 2 ELSE i + 1
  IN IF TokenAt(line, afterComma) \in Digits THEN afterComma + 1 ELSE afterComma
RangeCount(line, i) ==
  LET afterComma == IF TokenAt(line, i + 1) = "," THEN i + 2 ELSE i + 1
  IN IF TokenAt(line, afterComma) \in Digits THEN line[afterComma] ELSE ""
NoMatch ==
  [ok |-> FALSE, old_start |-> "", old_count |-> "", new_start |-> "",
   new_count |-> "", rest |-> <<>>]
HeaderMatch(line) ==
  LET b == RangeEnd(line, 4)
      e == RangeEnd(line, b + 2)
  IN IF /\ StartsWith(line, <<"@@", " ", "-">>)
        /\ TokenAt(line, 4) \in Digits
        /\ TokenAt(line, b) = " "
        /\ TokenAt(line, b + 1) = "+"
        /\ TokenAt(line, b + 2) \in Digits
        /\ TokenAt(line, e) = " "
        /\ TokenAt(line, e + 1) = "@@"
     THEN [ok |-> TRUE, old_start |-> line[4],
           old_count |-> RangeCount(line, 4), new_start |-> line[b + 2],
           new_count |-> RangeCount(line, b + 2),
           rest |-> SubSeq(line, e + 2, Len(line))]
     ELSE NoMatch

\* f"@@ -{start}[,{count}] ..." : one range of a header.
Range(sign, start, count) ==
  <<sign, start>> \o (IF count # "" THEN <<",", count>> ELSE <<>>)

\* diff_utils.py 59-82: the lines one input line contributes.
ReverseLine(line) ==
  IF StartsWith(line, <<"@@">>)
  THEN LET m == HeaderMatch(line)
       IN IF m.ok
          THEN << <<"@@", " ">> \o Range("-", m.new_start, m.new_count)
                    \o <<" ">> \o Range("+", m.old_start, m.old_count)
                    \o <<" ", "@@">> \o m.rest >>
          ELSE <<>>
  ELSE IF StartsWith(line, <<"+">>) THEN << <<"-">> \o Tail(line) >>
  ELSE IF StartsWith(line, <<"-">>) THEN << <<"+">> \o Tail(line) >>
  ELSE <<line>>

RECURSIVE ReverseLines(_)
ReverseLines(lines) ==
  IF lines = <<>> THEN <<>>
  ELSE ReverseLine(Head(lines)) \o ReverseLines(Tail(lines))

generate_reverse_diff(forward_diff) == Join(ReverseLines(forward_diff))

\* '@@ ' in diff_text
ContainsHunkMark(text) ==
  \E i \in 1..Len(text) : \E k \in 1..Len(text[i]) :
    text[i][k] = "@@" /\ TokenAt(text[i], k + 1) = " "

ValidPrefix(line) ==
  \E prefix \in {"@@", "+", "-", " "} : StartsWith(line, <<prefix>>)

validate_diff(diff_text) ==
  IF diff_text = EmptyString THEN TRUE
  ELSE IF ~ContainsHunkMark(diff_text) THEN FALSE
  ELSE \A i \in 1..Len(diff_text) : diff_text[i] # <<>> => ValidPrefix(diff_text[i])

\* diff_utils.py 104: the index of the first line from i on that starts with
\* '@@', or the index past the last line.
NextMark(lines, i) ==
  LET marks == {j \in i..Len(lines) : StartsWith(lines[j], <<"@@">>)}
  IN IF marks = {} THEN Len(lines) + 1
     ELSE CHOOSE j \in marks : \A k \in marks : j <= k

Hunk(m, hunk_lines) ==
  [new_start |-> Num(m.new_start),
   new_count |-> IF m.new_count = "" THEN 1 ELSE Num(m.new_count),
   lines |-> hunk_lines]

RECURSIVE ParseFrom(_, _)
ParseFrom(lines, i) ==
  IF i > Len(lines) THEN <<>>
  ELSE IF StartsWith(lines[i], <<"@@">>) /\ HeaderMatch(lines[i]).ok
  THEN LET j == NextMark(lines, i + 1)
       IN <<Hunk(HeaderMatch(lines[i]), SubSeq(lines, i + 1, j - 1))>>
            \o ParseFrom(lines, j)
  ELSE ParseFrom(lines, i + 1)

parse_diff_hunks(diff_text) == ParseFrom(diff_text, 1)

\* diff_utils.py 42-49: the line is appended to cleaned_lines.
Kept(line) ==
  /\ ~StartsWith(line, <<"diff --git">>)
  /\ ~StartsWith(line, <<"index ">>)
  /\ ~StartsWith(line, <<"-", "-", "-">>)
  /\ ~StartsWith(line, <<"+", "+", "+">>)
  /\ ValidPrefix(line)

clean_diff_output(diff_text) == Join(SelectSeq(diff_text, Kept))

\* The lines the diffs are made of.
PlainHeader == <<"@@", " ", "-", "1", " ", "+", "1", " ", "@@">>
CountedHeader ==
  <<"@@", " ", "-", "1", ",", "2", " ", "+", "2", ",", "3", " ", "@@", " ", "a">>
CommaHeader == <<"@@", " ", "-", "1", ",", " ", "+", "2", " ", "@@">>
DiffLines ==
  {<<>>, <<" ", "a">>, <<"+", "a">>, <<"-", "a">>, <<"a">>,
   PlainHeader, CountedHeader, CommaHeader,
   <<"@@", " ", "a">>,
   <<"+", "a", " ", "@@", " ", "b">>,
   <<"-", "-", "-", " ", "a">>,
   <<"+", "+", "+", "a">>,
   <<"diff --git", " ", "a">>,
   <<"index ", "a">>}
Diffs == UNION {[1..n -> DiffLines] : n \in 1..MaxDiffLines}

NoOutput == [fn |-> "none", text |-> EmptyString, valid |-> FALSE, hunks |-> <<>>]

InitDiff ==
  /\ PipelineAtRest
  /\ fs = <<>>
  /\ procs = <<>>
  /\ overlap = FALSE
  /\ batch = <<>>
  /\ diff_in \in Diffs
  /\ diff_out = NoOutput

Reverse ==
  /\ diff_out.fn = "none"
  /\ diff_out' = [NoOutput EXCEPT !.fn = "generate_reverse_diff",
                                  !.text = generate_reverse_diff(diff_in)]
  /\ UNCHANGED <<fs, procs, overlap, batch, diff_in>>
  /\ UNCHANGED pipeline

\* generate_reverse_diff applied to its own result.
ReverseAgain ==
  /\ diff_out.fn = "generate_reverse_diff"
  /\ diff_out' = [NoOutput EXCEPT !.fn = "reverse_twice",
                                  !.text = generate_reverse_diff(diff_out.text)]
  /\ UNCHANGED <<fs, procs, overlap, batch, diff_in>>
  /\ UNCHANGED pipeline

Validate ==
  /\ diff_out.fn = "none"
  /\ diff_out' = [NoOutput EXCEPT !.fn = "validate_diff",
                                  !.valid = validate_diff(diff_in)]
  /\ UNCHANGED <<fs, procs, overlap, batch, diff_in>>
  /\ UNCHANGED pipeline

ParseHunks ==
  /\ diff_out.fn = "none"
  /\ diff_out' = [NoOutput EXCEPT !.fn = "parse_diff_hunks",
                                  !.hunks = parse_diff_hunks(diff_in)]
  /\ UNCHANGED <<fs, procs, overlap, batch, diff_in>>
  /\ UNCHANGED pipeline

Clean ==
  /\ diff_out.fn = "none"
  /\ diff_out' = [NoOutput EXCEPT !.fn = "clean_diff_output",
                                  !.text = clean_diff_output(diff_in)]
  /\ UNCHANGED <<fs, procs, overlap, batch, diff_in>>
  /\ UNCHANGED pipeline

NextDiff ==
  \/ Reverse
  \/ ReverseAgain
  \/ Validate
  \/ ParseHunks
  \/ Clean

SpecDiff == InitDiff /\ [][NextDiff]_vars

\* C26: reversing a diff validate_diff accepts twice gives the diff back.
C26_RoundTrip ==
  (diff_out.fn = "reverse_twice" /\ validate_diff(diff_in)) =>
    diff_out.text = diff_in

\* The header line with the old and the new start/length pair exchanged.
SwappedHeader(line) ==
  LET m == HeaderMatch(line)
  IN <<"@@", " ">> \o Range("-", m.new_start, m.new_count)
       \o <<" ">> \o Range("+", m.old_start, m.old_count)
       \o <<" ", "@@">> \o m.rest

\* C27: the reverse of a diff validate_diff accepts is accepted too, has as
\* many lines, has '-' for '+' and '+' for '-' before the same text, has the
\* start/length pairs of every hunk header exchanged, and has the context
\* lines unchanged.
C27_ReverseStructure ==
  (diff_out.fn = "generate_reverse_diff" /\ validate_diff(diff_in)) =>
    /\ validate_diff(diff_out.text)
    /\ Len(diff_out.text) = Len(diff_in)
    /\ \A i \in 1..Len(diff_in) :
         diff_out.text[i] =
           IF HeaderMatch(diff_in[i]).ok THEN SwappedHeader(diff_in[i])
           ELSE IF StartsWith(diff_in[i], <<"+">>) THEN <<"-">> \o Tail(diff_in[i])
           ELSE IF StartsWith(diff_in[i], <<"-">>) THEN <<"+">> \o Tail(diff_in[i])
           ELSE diff_in[i]

\* C28: validate_diff accepts the empty diff, and accepts a non-empty diff
\* exactly when some line of it begins with '@@' and every non-empty line
\* begins with '@@', '+', '-' or a space.
C28_ValidateIff ==
  diff_out.fn = "validate_diff" =>
    (diff_out.valid <=>
       \/ diff_in = EmptyString
       \/ /\ \E i \in 1..Len(diff_in) : StartsWith(diff_in[i], <<"@@">>)
          /\ \A i \in 1..Len(diff_in) :
               diff_in[i] # <<>> => ValidPrefix(diff_in[i]))

\* The indexes of the hunk header lines, in document order.
HeaderIndexes(lines) ==
  LET H == {i \in 1..Len(lines) : HeaderMatch(lines[i]).ok}
      f[k \in 0..Cardinality(H)] ==
        IF k = 0 THEN 0
        ELSE CHOOSE i \in H : i > f[k - 1] /\ \A j \in H : j > f[k - 1] => i <= j
  IN [k \in 1..Cardinality(H) |-> f[k]]

\* C29: parse_diff_hunks returns one tuple per hunk header, in document
\* order, with the header's new start, its new length (1 when omitted) and
\* exactly the lines between the header and the next header or the end.
C29_ParseHunks ==
  diff_out.fn = "parse_diff_hunks" =>
    LET at == HeaderIndexes(diff_in)
        last(k) == IF k < Len(at) THEN at[k + 1] - 1 ELSE Len(diff_in)
    IN /\ Len(diff_out.hunks) = Len(at)
       /\ \A k \in 1..Len(at) :
            diff_out.hunks[k] =
              Hunk(HeaderMatch(diff_in[at[k]]), SubSeq(diff_in, at[k] + 1, last(k)))

\* Line i is a hunk header, or a '+', '-' or context line of a hunk.
HunkLine(lines, i) ==
  \/ HeaderMatch(lines[i]).ok
  \/ /\ \E h \in 1..(i - 1) : HeaderMatch(lines[h]).ok
     /\ \E prefix \in {"+", "-", " "} : StartsWith(lines[i], <<prefix>>)

RECURSIVE IsSubsequence(_, _)
IsSubsequence(a, b) ==
  IF a = <<>> THEN TRUE
  ELSE IF b = <<>> THEN FALSE
  ELSE IF Head(a) = Head(b) THEN IsSubsequence(Tail(a), Tail(b))
  ELSE IsSubsequence(a, Tail(b))

\* C30: clean_diff_output keeps every hunk header and every '+', '-' and
\* context line of a hunk, in their order, whatever their text, and no diff
\* header or index line.
C30_CleanKeepsContent ==
  diff_out.fn = "clean_diff_output" =>
    LET keep == {i \in 1..Len(diff_in) : HunkLine(diff_in, i)}
        test(i) == i \in keep
        kept == [k \in 1..Len(diff_in) |-> k]
        expected == [k \in 1..Len(SelectSeq(kept, test)) |->
                       diff_in[SelectSeq(kept, test)[k]]]
    IN /\ IsSubsequence(expected, diff_out.text)
       /\ \A k \in 1..Len(diff_out.text) :
            /\ ~StartsWith(diff_out.text[k], <<"diff --git">>)
            /\ ~StartsWith(diff_out.text[k], <<"index ">>)

\* ------------------------------------------------------- entry descriptions
\* A diff rendered as preformatted text: <pre><code>diff</code></pre>.
Preformatted(diff) == <<"<pre><code>">> \o diff \o <<"</code></pre>">>

\* C31: the description of a published entry is the page description
\* followed by the complete diff inside a <pre><code> block when
\* save_content returned a non-empty diff, and the page description alone
\* when the diff is None or empty.
C31_DiffInDescription ==
  (pc = "done" /\ InLog("w_feed") /\ exc = "") =>
    feed.items[1].description =
      IF Truthy(save_result.diff)
      THEN Text(content_data.description, Preformatted(save_result.diff))
      ELSE Text(content_data.description, NoDiff)

\* ------------------------------------------------------------------ extractor
\* ContentScraper.fetch_content as a function of what the server sends and
\* of the step that fails.  A response is its raw markup (excluded elements
\* included), the text inscriptis extracts from the cleaned body, and the
\* title and description of its head.
Url == "https://example.com"
RawPage(markup, text, title, description) ==
  [markup |-> markup, text |-> text, title |-> title, description |-> description]
RawPages ==
  {RawPage(m, t, title, d) :
     m \in {"m1", "m2"}, t \in {"a", "b"}, title \in {"T", "U"}, d \in {"", PlainDesc}}

\* requests.get, raise_for_status, BeautifulSoup and get_text can each raise.
FetchFaults == {"none", "download", "status", "parse", "extract"}
\* type(e).__name__ of what the failing step raises.
ErrorType(fault) ==
  CASE fault = "download" -> "ConnectionError"
    [] fault = "status" -> "HTTPError"
    [] fault = "parse" -> "ParserRejectedMarkup"
    [] fault = "extract" -> "ValueError"

\* hashlib.sha256(text_content.encode("utf-8")).hexdigest(): the first
\* eight characters and the rest.
Sha256(text) ==
  CASE text = "a" -> <<"aaaaaaaa", "1">>
    [] text = "b" -> <<"bbbbbbbb", "1">>
    [] OTHER -> <<"cccccccc", text>>
\* scraper.py 60-77: the lines of the text as paragraphs.
HtmlLines(text) == <<"<p>", text, "</p>">>

FetchRecord(error, msg, type, content, h, title, desc, url, t) ==
  [error |-> error, error_message |-> msg, error_type |-> type,
   content |-> content, hash |-> h, title |-> title, description |-> desc,
   url |-> url, timestamp |-> t]
FetchReturn(ret, e) == [ret |-> ret, exc |-> e]

\* Mutant: the handler names requests.RequestException only.
FetchCaught_requests_only(fault) == fault \in {"download", "status"}
\* scraper.py 91: except Exception.
FetchCaught(fault) == TRUE

\* Mutant: the fingerprint is taken over the raw response.
fetch_content_raw_hash(url, raw, now, fault) ==
  IF fault = "none"
  THEN FetchReturn(
         FetchRecord(FALSE, NoneStr, NoneStr, HtmlLines(raw.text),
                     Sha256(raw.markup), raw.title,
                     raw.description, url, now), "")
  ELSE FetchReturn(
         FetchRecord(TRUE, FetchFailure, ErrorType(fault), <<>>, NoneHash,
                     NoneStr, NoneStr, url, NoneInt), "")
fetch_content(url, raw, now, fault) ==
  IF fault = "none"
  THEN FetchReturn(
         FetchRecord(FALSE, NoneStr, NoneStr, HtmlLines(raw.text),
                     Sha256(raw.text), raw.title, raw.description, url, now),
         "")
  ELSE IF FetchCaught(fault)
  THEN FetchReturn(
         FetchRecord(TRUE, FetchFailure, ErrorType(fault), <<>>, NoneHash,
                     NoneStr, NoneStr, url, NoneInt), "")
  ELSE FetchReturn(NoData, ErrorType(fault))

\* lib.py 35-41 with scraper.py 16-103: the page is fetched; the record
\* returned is a non-empty dict in both shapes.
FetchRaw ==
  /\ pc = "fetch"
  /\ log' = Append(log, "fetch")
  /\ \E raw \in RawPages, fault \in FetchFaults :
       LET o == fetch_content(Url, raw, Now, fault)
       IN IF o.exc # ""
          THEN pc' = "except" /\ exc' = o.exc /\ UNCHANGED content_data
          ELSE pc' = "persist" /\ content_data' = o.ret /\ UNCHANGED exc
  /\ UNCHANGED others
  /\ UNCHANGED <<clock, metadata, snapshots, feed, req, save_result, result,
                 pre, lastCheck, runs, nPublish, specials>>

\* A site on which an earlier run has stored text "a" at time 0, with the
\* last_update it wrote or one that cannot be used; the run that follows is
\* explored.
InitFetch ==
  /\ clock = [hour |-> 0, tick |-> 0]
  /\ metadata \in {FirstSave.metadata,
                   [FirstSave.metadata EXCEPT !.last_update = BadStamp]}
  /\ snapshots = FirstSave.snapshots
  /\ feed = FirstFeed
  /\ pc = "idle"
  /\ req = NoRequest
  /\ content_data = NoData
  /\ save_result = NoSave
  /\ exc = ""
  /\ result = NoResult
  /\ pre = NoPersisted
  /\ log = <<>>
  /\ lastCheck = [t |-> NoneInt, min_hours |-> NoneInt]
  /\ runs = MaxRuns - 1
  /\ nPublish = 0
  /\ specials = 0
  /\ OthersAtRest

NextFetch ==
  \/ Tick
  \/ Construct
  \/ GateCadence
  \/ FetchRaw
  \/ Persist
  \/ Publish
  \/ ExceptHandler
  \/ Return

SpecFetch == InitFetch /\ [][NextFetch]_vars

\* The two shapes fetch_content returns.
FailureShape(cd) ==
  /\ cd.error
  /\ cd.error_message # NoneStr /\ cd.error_message # ""
  /\ cd.error_type # NoneStr
  /\ cd.url = Url
  /\ cd.hash = NoneHash /\ cd.timestamp = NoneInt /\ cd.content = <<>>
SuccessShape(cd) ==
  /\ ~cd.error
  /\ cd.content # <<>> /\ cd.hash # NoneHash
  /\ cd.title # NoneStr /\ cd.description # NoneStr
  /\ cd.url = Url
  /\ cd.timestamp # NoneInt

\* C32: fetch_content never raises.  Whichever step fails, the orchestrator
\* gets a failure record (error, message, error type, source URL), and
\* otherwise a success record (content, hash, title, description, url,
\* timestamp); exactly one of the two shapes.
C32_FetchNeverRaises ==
  (log # <<>> /\ log[Len(log)] = "fetch") =>
    /\ pc = "persist"
    /\ exc = ""
    /\ FailureShape(content_data) # SuccessShape(content_data)

\* Text extraction failed and the failure record reached the orchestrator.
C32_Witness ==
  /\ pc = "persist"
  /\ content_data.error
  /\ content_data.error_type = "ValueError"

\* C33: should_check fails open.  With min_hours given and a stored
\* last_update that cannot be parsed or compared with the current time, the
\* gate answers true: the run goes on to fetch, it is neither skipped nor
\* failed.
C33_FailsOpen ==
  (/\ log # <<>> /\ log[Len(log)] = "gate"
   /\ req.min_hours # NoneInt
   /\ metadata.last_update = BadStamp) =>
    (pc = "fetch" /\ exc = "" /\ result = NoResult)

\* The gate has let a run with min_hours = 1 through at time 0 on a bad stamp.
C33_Witness ==
  /\ pc = "fetch"
  /\ req.min_hours = 1
  /\ metadata.last_update = BadStamp
  /\ Now = 0

\* C34: the fingerprint depends on the normalized text only.  A run whose
\* extraction yields the text of the stored version, whatever the raw
\* markup, title, description or capture time of the response, computes the
\* stored fingerprint, is reported unchanged and writes nothing.
C34_FingerprintOfTextOnly ==
  (/\ pc = "done" /\ InLog("persist")
   /\ ~content_data.error
   /\ content_data.content = HtmlLines("a")) =>
    /\ content_data.hash = pre.metadata.last_hash
    /\ result = UnchangedResult(content_data.hash)
    /\ Persisted = pre

\* The stored text came back later under another title and description.
C34_Witness ==
  /\ pc = "done" /\ InLog("persist")
  /\ ~content_data.error
  /\ content_data.content = HtmlLines("a")
  /\ content_data.title = "U"
  /\ content_data.description = PlainDesc
  /\ content_data.timestamp > 0
  /\ result.success /\ ~result.changed

\* ------------------------------------------------------- snapshot document
\* storage.py 113-176: the document save_content renders, by what it
\* embeds: the charset declaration, the title, the named meta tags, the
\* scripts it references, the links of its metadata box and the body.
html_content(cd, feed_name) ==
  [charset |-> "UTF-8",
   title |-> cd.title,
   meta |-> [name \in {"source-url", "scraped-at", "content-hash"} |->
               CASE name = "source-url" -> <<cd.url>>
                 [] name = "scraped-at" -> <<cd.timestamp>>
                 [] name = "content-hash" -> cd.hash],
   scripts |-> {},
   links |-> {<<cd.url>>, <<"../history-explorer.html?feed=", feed_name>>},
   body |-> cd.content]

\* C35: every snapshot artifact written by save_content embeds the title,
\* source URL, capture timestamp and fingerprint of the saved content, and
\* includes the history-viewer script reference and an rss-feed-url
\* metadata tag.
C35_SelfDescribing ==
  (pc = "publish" /\ InLog("persist")) =>
    LET doc == html_content(content_data, FeedName)
    IN /\ doc.title = content_data.title
       /\ doc.meta["source-url"] = <<Url>>
       /\ doc.meta["scraped-at"] = <<content_data.timestamp>>
       /\ doc.meta["content-hash"] = content_data.hash
       /\ <<"../../history-viewer.js">> \in doc.scripts
       /\ "rss-feed-url" \in DOMAIN doc.meta

\* ------------------------------------------------------ metadata consistency
\* The snapshot last_filename names exists.
LastFileExists ==
  metadata.last_filename # NoneInt => metadata.last_filename \in DOMAIN snapshots
\* It holds the fingerprint last_hash and has the greatest key of the site.
LastFileIsLatest ==
  metadata.last_filename # NoneInt =>
    /\ metadata.last_filename \in DOMAIN snapshots
    /\ snapshots[metadata.last_filename].hash = metadata.last_hash
    /\ \A k \in DOMAIN snapshots : k <= metadata.last_filename
\* A save_content call that raises after it has written to the site's store.
FailedSave ==
  /\ pc = "persist" /\ pc' = "except"
  /\ snapshots' # snapshots

C37_ResultShape ==
  pc = "done" =>
    /\ result.skipped => (result.success /\ ~result.changed)
    /\ result.changed =>
         /\ result.success
         /\ result.filename # NoneInt
         /\ result.feed_path # NoneStr
         /\ result.content_hash # NoneHash
    /\ ~result.success =>
         /\ ~result.changed /\ ~result.skipped
         /\ result.error_message # NoneStr /\ result.error_message # ""
    /\ (result.filename # NoneInt \/ result.feed_path # NoneStr) => result.changed

\* A run that failed after its snapshot was written has returned.
C37_Witness ==
  /\ pc = "done"
  /\ ~result.success
  /\ InLog("w_artifact")

\* --------------------------------------------------------------- termination
\* The steps of one invocation.  Each is a straight-line call: the fetch is
\* bounded by its timeout (scraper.py 26), the others by local file I/O.
RunStep ==
  \/ GateCadence
  \/ FetchRaw
  \/ Persist
  \/ Publish
  \/ ExceptHandler

\* An invocation that has started keeps executing until it returns.
SpecFetchLive == SpecFetch /\ WF_vars(RunStep)

Running == pc \in {"gate", "fetch", "persist", "publish", "except"}

\* The four terminal outcomes of a result.
TerminalOutcomes(r) ==
  {o \in {"SKIPPED", "FAILED", "UNCHANGED", "DONE"} :
     \/ o = "SKIPPED" /\ r.skipped
     \/ o = "FAILED" /\ ~r.success
     \/ o = "UNCHANGED" /\ r.success /\ ~r.changed /\ ~r.skipped
     \/ o = "DONE" /\ r.changed}

\* The place of a log entry in the order gate, fetch, compare (the call of
\* save_content), persist (its writes), publish (and its write).
StepIndex(x) ==
  CASE x = "gate" -> 1
    [] x = "fetch" -> 2
    [] x = "persist" -> 3
    [] x = "w_artifact" -> 4
    [] x = "diff_failed" -> 5
    [] x = "w_metadata" -> 6
    [] x = "publish" -> 7
    [] x = "w_feed" -> 8
StepsInOrder ==
  \A i, j \in 1..Len(log) : i < j => StepIndex(log[i]) < StepIndex(log[j])

\* C38: every invocation of scrape_and_update_feed terminates, the fetch
\* being bounded by its timeout, in exactly one of the outcomes SKIPPED,
\* FAILED, UNCHANGED and DONE; no step is retried or re-entered within a
\* run, and the steps that run occur in the order gate, fetch, compare,
\* persist, publish.
C38_Terminates ==
  /\ [](StepsInOrder /\ pc # "propagated")
  /\ [](pc = "done" => Cardinality(TerminalOutcomes(result)) = 1)
  /\ (Running ~> pc = "done")

\* A run that went through every step has ended as DONE.
C38_Witness ==
  /\ pc = "done"
  /\ TerminalOutcomes(result) = {"DONE"}
  /\ log = <<"gate", "fetch", "persist", "w_artifact", "w_metadata",
             "publish", "w_feed">>

\* -------------------------------------------------------- unpublished change
\* The snapshot the record names has no entry in the feed document: its
\* publish failed.
Unpublished(p) ==
  /\ p.metadata.last_filename # NoneInt
  /\ \A i \in 1..Len(p.feed.items) :
       p.feed.items[i].link.filename # p.metadata.last_filename

\* C39: a change whose publish failed is never published later.  A run
\* that starts with the stored snapshot S unpublished and fetches the same
\* content returns unchanged without touching the feed; when the content
\* has changed, the entry the run publishes names the newer snapshot, and
\* S still has none.
C39_NeverPublishedLater ==
  (/\ pc = "done" /\ InLog("persist")
   /\ Unpublished(pre)
   /\ ~content_data.error) =>
    IF content_data.hash = pre.metadata.last_hash
    THEN /\ result = UnchangedResult(content_data.hash)
         /\ ~InLog("publish")
         /\ Persisted = pre
    ELSE result.changed =>
           \A i \in 1..Len(feed.items) :
             feed.items[i].link.filename = pre.metadata.last_filename =>
               /\ i = 1
               /\ result.filename = pre.metadata.last_filename
               /\ snapshots[result.filename].hash = content_data.hash

\* The run after a failed publish fetched the same content again.
C39_Witness ==
  /\ pc = "done" /\ InLog("persist")
  /\ Unpublished(pre)
  /\ ~content_data.error
  /\ content_data.hash = pre.metadata.last_hash
  /\ ~result.changed
  /\ Unpublished(Persisted)

\* The run after a failed publish found a change and published it.
C39_NewerPublished ==
  /\ pc = "done" /\ InLog("persist")
  /\ Unpublished(pre)
  /\ result.changed

\* ---------------------------------------------------- unreadable metadata
\* One of the three persisted files was written in this run.
WroteAny == InLog("w_artifact") \/ InLog("w_metadata") \/ InLog("w_feed")

\* C40: an unreadable metadata record is not recovered from.  Every run
\* that starts on it, with or without min_hours, ends as a failure with no
\* snapshot, metadata or feed write, and no step of any run makes the
\* record readable again.
C40_CorruptStaysCorrupt ==
  /\ [][metadata.corrupt => metadata'.corrupt]_vars
  /\ []((pc = "done" /\ pre.metadata.corrupt) =>
          /\ ~result.success
          /\ result.error_message # NoneStr
          /\ ~WroteAny
          /\ Persisted = pre)

\* A run without min_hours on an unreadable record fetched a page and failed.
C40_Witness ==
  /\ pc = "done"
  /\ pre.metadata.corrupt
  /\ req.min_hours = NoneInt
  /\ InLog("persist")
  /\ ~content_data.error
  /\ ~result.success

====
